---- MODULE Spec2Model ----
(***************************************************************************)
(* A model of sdgrabber: the hash diff of stores.py (_diff), the change    *)
(* store (BaseStore / PickleStore) and the three-phase sync pipeline of    *)
(* client.py (get_lineups, get_schedules, get_programs).                   *)
(*                                                                         *)
(*   SpecDiff  : _diff(old, new) consumed one next() at a time, then run   *)
(*               a second time with the same new.                          *)
(*   Spec      : an SDGrabber client with a PickleStore, driven by a       *)
(*               caller through login / get_programs runs.                 *)
(***************************************************************************)
EXTENDS Integers, Sequences, FiniteSets, TLC

\* ------------------------------------------------------------------ bounds
\* Longest `new` sequence handed to _diff.
MaxNew == 3

\* ------------------------------------------------------------ common helpers
\* Python's None: the default of old.get(key, None), never a marker.
None == "None"

\* old.get(k, None) on a dict modelled as a function with a finite domain.
Get(o, k) == IF k \in DOMAIN o THEN o[k] ELSE None

\* The empty dict {}.
EmptyMap == [k \in {} |-> None]

Range(s) == {s[i] : i \in DOMAIN s}

\* dict.setdefault(k, []) read: the list stored for k, [] when absent.
Get2(o, k) == IF k \in DOMAIN o THEN o[k] ELSE <<>>

Max(S) == CHOOSE x \in S : \A y \in S : x >= y

Min(S) == CHOOSE x \in S : \A y \in S : x <= y

\* ---------------------------------------------------------------- _diff
\* Keys and markers the diff is exercised on.
DiffKeys == {"a", "b", "c"}
DiffMarkers == {"1", "2"}
DiffPairs == DiffKeys \X DiffMarkers
DiffOlds == UNION {[D -> DiffMarkers] : D \in SUBSET DiffKeys}
DiffNews == UNION {[1..n -> DiffPairs] : n \in 0..MaxNew}

\* The worked example of the diff tests: test_extra_new and
\* test_different_value_new combined.
ExampleOld == ("a" :> "1") @@ ("b" :> "2") @@ ("c" :> "3")
ExampleNew == << <<"a", "1">>, <<"b", "2">>, <<"c", "4">>, <<"d", "5">> >>

VARIABLES
    old,        \* the dict _diff mutates
    new,        \* the list of (key, marker) pairs
    pos,        \* index of the next pair the generator expression examines
    yielded,    \* keys yielded so far, in order
    done,       \* the generator raised StopIteration
    pass,       \* 1: first _diff(old, new); 2: _diff run again, same new
    \* history, for stating the claims
    old0,       \* old as it was when the current pass began
    seenAs,     \* seenAs[i]: old.get(key_i) at the moment pair i was examined
    outIdx,     \* indices of the pairs that were yielded
    yielded1    \* what pass 1 yielded

dvars == <<old, new, pos, yielded, done, pass, old0, seenAs, outIdx, yielded1>>

\* A plausible slip: test key membership only (the filter of the older
\* store), so a changed marker of a known key goes unnoticed.
ChangedKeyOnly(o, item) == item[1] \notin DOMAIN o

\* The filter of the generator expression: old.get(item[0], None) != item[1]
Changed(o, item) == Get(o, item[1]) # item[2]

\* A plausible slip: the marker is never written back.
BindNothing(o, key, hash) == o

\* A plausible slip: the dict is rebuilt from the yielded pair alone.
BindFresh(o, key, hash) == (key :> hash)

\* old[key] = hash
Bind(o, key, hash) == (key :> hash) @@ o

\* Indices, from i on, of the pairs that pass the filter against o.  The
\* filter is lazy: pairs are tested one at a time and o does not change
\* until one passes.
Hits(o, n, i) == {j \in i..Len(n) : Changed(o, n[j])}

InitDiffVars ==
    /\ \/ old \in DiffOlds /\ new \in DiffNews
       \/ old = ExampleOld /\ new = ExampleNew
    /\ pos = 1
    /\ yielded = <<>>
    /\ done = FALSE
    /\ pass = 1
    /\ old0 = old
    /\ seenAs = <<>>
    /\ outIdx = <<>>
    /\ yielded1 = <<>>

\* One next() on the generator returned by _diff: resume after the last
\* yield, pull pairs through the filter until one passes, write its marker
\* into old and yield its key; or run off the end of new.
DiffNext ==
    /\ ~done
    /\ LET h == Hits(old, new, pos) IN
       IF h = {}
       THEN /\ done' = TRUE
            /\ pos' = Len(new) + 1
            /\ seenAs' = seenAs \o [i \in 1..(Len(new) + 1 - pos) |->
                                       Get(old, new[pos + i - 1][1])]
            /\ yielded1' = IF pass = 1 THEN yielded ELSE yielded1
            /\ UNCHANGED <<old, yielded, outIdx>>
       ELSE LET j == Min(h) IN
            /\ old' = Bind(old, new[j][1], new[j][2])
            /\ yielded' = Append(yielded, new[j][1])
            /\ outIdx' = Append(outIdx, j)
            /\ pos' = j + 1
            /\ seenAs' = seenAs \o [i \in 1..(j + 1 - pos) |->
                                       Get(old, new[pos + i - 1][1])]
            /\ UNCHANGED <<done, yielded1>>
    /\ UNCHANGED <<new, pass, old0>>

\* The caller runs _diff a second time with the same new against the dict
\* the first run left behind.
DiffAgain ==
    /\ done
    /\ pass = 1
    /\ pass' = 2
    /\ pos' = 1
    /\ yielded' = <<>>
    /\ done' = FALSE
    /\ old0' = old
    /\ seenAs' = <<>>
    /\ outIdx' = <<>>
    /\ UNCHANGED <<old, new, yielded1>>

\* The filter of the generator expression in the pysd store:
\* item[0] not in old
PysdChanged(o, item) == item[1] \notin DOMAIN o

\* Indices, from i on, of the pairs that pass the pysd filter against o.
PysdHits(o, n, i) == {j \in i..Len(n) : PysdChanged(o, n[j])}

\* One next() on the generator returned by the _diff method of the pysd
\* store: pull pairs through its filter until one passes, write its marker
\* into old and yield its key; or run off the end of new.
PysdDiffNext ==
    /\ ~done
    /\ LET h == PysdHits(old, new, pos) IN
       IF h = {}
       THEN /\ done' = TRUE
            /\ pos' = Len(new) + 1
            /\ seenAs' = seenAs \o [i \in 1..(Len(new) + 1 - pos) |->
                                       Get(old, new[pos + i - 1][1])]
            /\ yielded1' = yielded
            /\ UNCHANGED <<old, yielded, outIdx>>
       ELSE LET j == Min(h) IN
            /\ old' = Bind(old, new[j][1], new[j][2])
            /\ yielded' = Append(yielded, new[j][1])
            /\ outIdx' = Append(outIdx, j)
            /\ pos' = j + 1
            /\ seenAs' = seenAs \o [i \in 1..(j + 1 - pos) |->
                                       Get(old, new[pos + i - 1][1])]
            /\ UNCHANGED <<done, yielded1>>
    /\ UNCHANGED <<new, pass, old0>>

DiffIdle ==
    /\ old = EmptyMap /\ new = <<>> /\ pos = 1 /\ yielded = <<>>
    /\ done = FALSE /\ pass = 1 /\ old0 = EmptyMap /\ seenAs = <<>>
    /\ outIdx = <<>> /\ yielded1 = <<>>

\* ------------------------------------------------------------ the server
\* What the Schedules Direct service answers.  The shape is fixed; the
\* md5 markers and the failing slots vary from state to state.
StatusLineups == <<"L1", "L2">>

\* /lineups/<name>: the stations of the lineup, each with a map entry.
LineupStations(name) == IF name = "L1" THEN <<"s1">> ELSE <<"s2">>

\* /lineups/<name>: the 'map' list, one entry per channel a station is
\* tuned to; s2 of L2 is on two channels.
LineupMap(name) ==
    IF name = "L1" THEN << [stationID |-> "s1", channel |-> "002"] >>
    ELSE << [stationID |-> "s2", channel |-> "005"],
            [stationID |-> "s2", channel |-> "007"] >>

\* The 'callsign' of a station entry.
Callsign(station) == IF station = "s1" THEN "KAAA" ELSE "KBBB"

\* /schedules/md5: the days listed for a station, in response order.
ManifestDays(station) == IF station = "s1" THEN <<"d1", "d2">> ELSE <<"d1">>

Slots == {<<"s1", "d1">>, <<"s1", "d2">>, <<"s2", "d1">>}

\* Program ids: <<first ten characters, remaining characters>>.
P1 == <<"SH03165254", "0000">>
P2 == <<"SH03165254", "0001">>
P3 == <<"EP01863210", "0004">>
Programs == {P1, P2, P3}

\* programID[:10]
Trunc10(pid) == pid[1]

\* /schedules: the programs aired in a (station, day) slot.
SlotPrograms(slot) ==
    IF slot = <<"s1", "d1">> THEN <<P1, P2>>
    ELSE IF slot = <<"s1", "d2">> THEN <<P1>>
    ELSE <<P3>>

Markers == {"m1", "m2"}

\* The server states explored: the md5 of slot (s1, d1) and of program P1
\* change, and at most one slot answers with an error envelope.
ServerStates ==
    { [ smd5 |-> [k \in Slots |-> IF k = <<"s1", "d1">> THEN a ELSE "m1"],
        pmd5 |-> [q \in Programs |-> IF q = P1 THEN b ELSE "m1"],
        errSlots |-> e, gaps |-> "none" ] :
      a \in Markers, b \in Markers,
      e \in {{}, {<<"s1", "d1">>}, {<<"s2", "d1">>}} }

\* What the answers to a batch of program ids may lack: the object of P1 in
\* /programs ("program"), the entry of P1 in /metadata/description
\* ("metadata"), that whole response, which is then an empty list
\* ("metalist"), the entry of P1's first ten characters in
\* /metadata/programs ("artwork"), or that entry's data, which is then the
\* code-5000 not-found dict ("placeholder").
Gaps == {"none", "program", "metadata", "metalist", "artwork", "placeholder"}

\* The server states explored for the merge of a batch: no slot fails, the
\* md5 of P1 changes, the answers have one of the gaps.
GapServerStates ==
    { [ smd5 |-> [k \in Slots |-> "m1"],
        pmd5 |-> [q \in Programs |-> IF q = P1 THEN b ELSE "m1"],
        errSlots |-> {}, gaps |-> g ] :
      b \in Markers, g \in Gaps }

\* chunker(self._station_ids, 5000) and chunker(groupby(...), 5000); scaled
\* down so that a run has more than one chunk.
StationChunk == 1

\* chunker(self.store.diff_programs(...), 500); scaled down likewise.
ProgramChunk == 2

\* ------------------------------------------------------------- bounds
\* next() calls on a generator of get_lineups() or get_schedules() before
\* the caller drops it.
MaxTake == 2

\* Processes (fresh client and store objects over the same files) modelled.
MaxRuns == 2

\* Calls of status(), list(get_lineups()) and list(get_schedules()), and
\* exceptions handled, by one process.
MaxCalls == 2

\* The first next() of get_programs() issues at most this many requests
\* (one status, two lineups, two manifests, two schedules, three of a
\* program batch); the request that answers with an error envelope is
\* chosen among them (0: none does).  get_lineups() issues at most 3,
\* get_schedules() at most 7, a later next() at most 3.
MaxFailAt == 10

\* ------------------------------------------------------------ the client
VARIABLES
    token,        \* SDGrabber.token
    station_ids,  \* SDGrabber._station_ids: [st: "None"|"list"|"deleted", v]
    program_ids,  \* SDGrabber._program_ids: likewise
    mem,          \* the store object: which of _lineups/_schedules/_programs
                  \* are bound, and to what
    disk,         \* the three files of the PickleStore
    srv,          \* the server's current answers
    gp,           \* the generator returned by get_programs()
    reqs,         \* requests issued by the caller's current operation (a
                  \* call, or a generator of get_programs()), in order
    saveCalls,    \* invocations of store.save() by this process
    err,          \* the exception the caller's last operation raised
    held,         \* the caller's list(api.get_lineups()), once it has one
    heldSchedules, \* the schedules the caller took from get_schedules()
    out,          \* what the phases produced during that operation
    hist          \* history of the runs, for stating the claims;
                  \* fullPids: the (programID, md5) pairs of the schedules
                  \* yielded by the most recent get_schedules() consumed
                  \* to its end, among those whose schedules the caller
                  \* took (KeepSchedules, TakeSchedules)
                  \* channels: the argument of the last
                  \* get_lineups(channels=...)

pvars == <<token, station_ids, program_ids, mem, disk, srv, gp, reqs,
           saveCalls, err, held, heldSchedules, out, hist>>

\* The client of the pysd package (SDClient), which has its own login().
VARIABLES
    pysd,         \* [token, err, reqs, body]: SDClient.token, what its last
                  \* operation raised, its requests, the last /token body
    prun          \* the rest of an SDClient and its PickleStore: the
                  \* client's _station_ids and _program_ids, the store
                  \* object (mem) and its files (disk), and of the caller's
                  \* last operation (op) the requests, what it produced and
                  \* what it raised; run, calls, disk0: history

lvars == <<pysd, prun>>

\* A store object used on its own, and the files at its path.
VARIABLES
    kind,         \* "pickle" (PickleStore) or "null" (NullStore)
    files,        \* file name -> [exists, bytes]
    smem,         \* the store object's _lineups, _schedules, _programs
    saved,        \* category -> the mapping last passed to its save_*
    lastOp,       \* the last operation on the store and what it returned
    ops,          \* operations so far
    sync          \* two runs that share the store object: of each run the
                  \* categories whose diff it has exhausted (done), its
                  \* open diff generator (open, old, todo), whether it has
                  \* called save() (saved); history: the map each diff
                  \* loaded (base), the pairs it yielded (got), the files
                  \* its save() left (wrote); binder: the run whose diff
                  \* bound a category last; dirty: a diff has bound a
                  \* category since the last save()

svars == <<kind, files, smem, saved, lastOp, ops, sync>>

\* A ProgramModel whose properties are read.
VARIABLES
    pmodel,         \* ProgramModel.data: the dict handed to the constructor
    access        \* the property read last and what reading it gave

mvars == <<pmodel, access>>

\* A chunker(iterable, size) generator whose chunks are consumed in turn.
VARIABLES
    chk           \* [seq, size]: the arguments; pos: how many items the
                  \* iterator has handed out; chunks: the chunks yielded,
                  \* each as the list of its items; done: the generator
                  \* raised StopIteration

cvars == <<chk>>

vars == <<dvars, pvars, lvars, svars, mvars, cvars>>

\* What an action of the SDGrabber client leaves alone.
others == <<dvars, lvars, svars, mvars, cvars>>

\* Bodies the /token endpoint may answer with: code 0 and a token, the
\* error envelope (a 'response' field, e.g. code 3000 SERVICES_OFFLINE),
\* and a nonzero code without a 'response' field.
TokenBodies ==
    { [code |-> 0, response |-> None, token |-> "t1"],
      [code |-> 0, response |-> None, token |-> "t2"],
      [code |-> 3000, response |-> "SERVICES_OFFLINE", token |-> None],
      [code |-> 4003, response |-> None, token |-> None] }

\* No /token request was answered yet.
NoBody == [code |-> 0, response |-> None, token |-> None]

\* isinstance(data, dict) and 'response' in data
HasResponse(body) == body.response # None

\* A plausible slip: _request does not look for the envelope, so login finds
\* out only when the body has no token.
LoginRaisesKeyOnly(body) ==
    IF body.token = None THEN "KeyError" ELSE None

\* What login() raises for a body (None: nothing) in SDGrabber: _request
\* raises ErrorResponse for an envelope; data['token'] raises KeyError when
\* the body has no token.
LoginRaises(body) ==
    IF HasResponse(body) THEN "ErrorResponse"
    ELSE IF body.token = None THEN "KeyError"
    ELSE None

Categories == {"lineups", "schedules", "programs"}

\* self._station_ids = None in __init__
AttrNone == [st |-> "None", v |-> <<>>]

\* del self._station_ids: the instance attribute is gone and the class
\* defines none.
AttrDeleted == [st |-> "deleted", v |-> <<>>]

AttrList(v) == [st |-> "list", v |-> v]

\* The channels argument of get_lineups: None (absent), a dict
\* {number: callsign} or a list of (number, name) tuples; pairs holds the
\* items of the dict or the tuples of the list.
NoChannels == [kind |-> "None", pairs |-> <<>>]

\* A store object right after construction: BaseStore defines no __init__
\* and no class attribute, so _lineups, _schedules, _programs do not exist.
FreshStore ==
    [bound |-> {}, lineups |-> EmptyMap, schedules |-> EmptyMap,
     programs |-> EmptyMap]

NoOut ==
    [lineups |-> <<>>, schedChanged |-> <<>>, schedules |-> <<>>,
     errEntries |-> <<>>, progChanged |-> <<>>, programs |-> <<>>,
     saves |-> <<>>]

\* No file at the store's path: every load_* returns {}.
NoFiles == [lineups |-> EmptyMap, schedules |-> EmptyMap, programs |-> EmptyMap]

\* The files a process may find at the store's path.
InitialDisks ==
    { [lineups |-> EmptyMap, schedules |-> sc, programs |-> pr] :
      sc \in {EmptyMap,
              (<<"s1", "d1">> :> "m1") @@ (<<"s2", "d1">> :> "m2")},
      pr \in {EmptyMap, (P1 :> "m1") @@ (P3 :> "m1")} }
    \cup { [lineups |-> ("L1" :> "m1"), schedules |-> EmptyMap,
            programs |-> EmptyMap] }

InitClient ==
    /\ token = None
    /\ station_ids = AttrNone
    /\ program_ids = AttrNone
    /\ mem = FreshStore
    /\ disk \in InitialDisks
    /\ srv \in ServerStates
    /\ gp = [pc |-> "none", lineups |-> AttrNone, airtimes |-> EmptyMap,
             changed |-> <<>>, dpos |-> 0, dold |-> EmptyMap,
             pending |-> <<>>, metadata |-> [list |-> FALSE, d |-> EmptyMap],
             artwork |-> EmptyMap, schedules |-> AttrNone]
    /\ reqs = <<>>
    /\ saveCalls = 0
    /\ err = None
    /\ held = AttrNone
    /\ heldSchedules = AttrNone
    /\ out = NoOut
    /\ hist = [run |-> 1, calls |-> 0, op |-> "init", body |-> NoBody,
               disk0 |-> disk,
               sameSrv |-> FALSE, prevFresh |-> FALSE, prevEnded |-> FALSE,
               prevAll |-> FALSE, fullPids |-> AttrNone,
               channels |-> NoChannels]

ClientIdle ==
    /\ InitClient
    /\ disk = NoFiles
    /\ srv = CHOOSE x \in ServerStates : TRUE

\* ------------------------------------------------------- the pysd client
\* Requests one SDClient issues.
MaxPysdReqs == 3

\* An SDClient and its store right after construction, no file at the
\* store's path.
FreshRun ==
    [station_ids |-> AttrNone, program_ids |-> AttrNone, mem |-> FreshStore,
     disk |-> NoFiles, reqs |-> <<>>, out |-> NoOut, err |-> None,
     saveCalls |-> 0, op |-> "init", run |-> 1, calls |-> 0,
     disk0 |-> NoFiles]

\* SDClient right after construction: token = None (class attribute),
\* _station_ids = _program_ids = None.
InitPysd ==
    /\ pysd = [token |-> None, err |-> None, reqs |-> <<>>, body |-> NoBody]
    /\ prun = FreshRun

\* What SDClient.login() raises for a body: _request raises ErrorResponse
\* for an envelope before login sees the body; for a nonzero code login
\* evaluates ServiceOffline(data['response'], data), where data['response']
\* raises KeyError since an envelope never gets here; data['token'] raises
\* KeyError when there is no token.
PysdLoginRaises(body) ==
    IF HasResponse(body) THEN "ErrorResponse"
    ELSE IF body.code # 0 THEN "KeyError"
    ELSE IF body.token = None THEN "KeyError"
    ELSE None

\* SDClient.login()
PysdLogin ==
    /\ Len(pysd.reqs) < MaxPysdReqs
    /\ \E body \in TokenBodies :
          pysd' = [token |-> IF PysdLoginRaises(body) = None THEN body.token
                             ELSE pysd.token,
                   err |-> PysdLoginRaises(body),
                   reqs |-> Append(pysd.reqs, <<"token", pysd.token>>),
                   body |-> body]
    /\ UNCHANGED <<prun, dvars, pvars, svars, mvars, cvars>>

\* SDClient._request for a path other than /token: the Token header is the
\* client's token when it is not None; an envelope raises ErrorResponse.
PysdRequest ==
    /\ Len(pysd.reqs) < MaxPysdReqs
    /\ \E path \in {"status", "lineups"}, refused \in BOOLEAN :
          pysd' = [pysd EXCEPT
                     !.err = IF refused THEN "ErrorResponse" ELSE None,
                     !.reqs = Append(@, <<path, pysd.token>>)]
    /\ UNCHANGED <<prun, dvars, pvars, svars, mvars, cvars>>

\* ------------------------------------------------- requests and the world
\* The mutable state an operation works on, threaded through the operators
\* below: the client's private fields, the store, the request log; and the
\* channels argument of the get_lineups() in progress.
World ==
    [station_ids |-> station_ids, program_ids |-> program_ids, mem |-> mem,
     disk |-> disk, reqs |-> reqs, nreq |-> 0, saveCalls |-> saveCalls,
     out |-> out, channels |-> NoChannels]

\* The same at the start of a new operation of the caller: nothing
\* requested, nothing produced yet.
NewWorld == [World EXCEPT !.reqs = <<>>, !.out = NoOut]

\* A plausible slip: the Token header is left out.
RequestNoToken(w, path, data) ==
    [w EXCEPT !.reqs = Append(@, <<path, data, None>>), !.nreq = @ + 1]

\* _request: log the request with the Token header it carries (the
\* client's token when it is not None).  It raises ErrorResponse when the
\* parsed body is a dict with a 'response' field; which request of the
\* operation gets such a body is the input failAt.
Request(w, path, data) ==
    [w EXCEPT !.reqs = Append(@, <<path, data, token>>), !.nreq = @ + 1]

Refused(w, failAt) == w.nreq + 1 = failAt

\* The calling script handles no exception (as __main__ and tools.dump):
\* the first one that reaches it ends the process.
Running == err = None

\* login(): POST /token; self.token is assigned only when nothing was raised.
Login ==
    /\ Running
    /\ gp.pc = "none"
    /\ token = None
    /\ \E body \in TokenBodies :
          /\ reqs' = Append(reqs, <<"token", None, token>>)
          /\ err' = LoginRaises(body)
          /\ token' = IF LoginRaises(body) = None THEN body.token ELSE token
          /\ hist' = [hist EXCEPT !.op = "login", !.body = body]
    /\ UNCHANGED <<station_ids, program_ids, mem, disk, srv, gp, saveCalls,
                   held, heldSchedules, out>>
    /\ UNCHANGED others

\* ----------------------------------------------------------- get_lineups
\* GET /status as the server answers it.
StatusResponse ==
    [lineups |-> [i \in DOMAIN StatusLineups |->
                     [lineup |-> StatusLineups[i], modified |-> "m1"]]]

\* StatusModel(data).lineups, each with a .name
StatusModelLineups(data) ==
    [i \in DOMAIN data.lineups |-> data.lineups[i].lineup]

\* station_map = {m['stationID']: m['channel'] for m in data['map']}: a
\* later entry of a station replaces an earlier one.
StationMap(name) ==
    LET m == LineupMap(name) IN
    [st \in {m[i].stationID : i \in DOMAIN m} |->
        m[Max({i \in DOMAIN m : m[i].stationID = st})].channel]

\* numbers: the keys of the dict, or i[0] of every tuple.
Numbers(channels) == {channels.pairs[i][1] : i \in DOMAIN channels.pairs}

\* names: the values of the dict, or i[1] of every tuple.
Names(channels) == {channels.pairs[i][2] : i \in DOMAIN channels.pairs}

\* A plausible slip: a station is skipped unless both its number and its
\* callsign were given.
SkippedUnlessBoth(channels, number, name) ==
    /\ channels.pairs # <<>>
    /\ (number \notin Numbers(channels) \/ name \notin Names(channels))

\* if channels: if number not in numbers and name not in names: continue
\* (an empty dict or list is false, as is None).
Skipped(channels, number, name) ==
    /\ channels.pairs # <<>>
    /\ number \notin Numbers(channels)
    /\ name \notin Names(channels)

\* The station ids the loop over data['stations'] appends for one lineup.
ListedStations(w, name) ==
    SelectSeq(LineupStations(name),
              LAMBDA st : ~Skipped(w.channels, StationMap(name)[st],
                                   Callsign(st)))

\* The outcome of running (part of) a generator: the world it leaves, the
\* exception that ended it (None: it ran off its end) and what it yielded.
Outcome(w, exc, ys) == [w |-> w, exc |-> exc, ys |-> ys]

\* The body of the loop over status.lineups, to the end: request each
\* lineup, collect its station ids, yield its LineupModel; after the loop
\* store the station ids on the client.
RECURSIVE LineupLoop(_, _, _, _, _)
LineupLoop(w, todo, ids, ys, failAt) ==
    IF todo = <<>>
    THEN Outcome([w EXCEPT !.station_ids = AttrList(ids)], None, ys)
    ELSE IF Refused(w, failAt)
    THEN Outcome(Request(w, "lineups", Head(todo)), "ErrorResponse", ys)
    ELSE LET w1 == Request(w, "lineups", Head(todo))
             w2 == [w1 EXCEPT !.out.lineups = Append(@, Head(todo))]
         IN LineupLoop(w2, Tail(todo), ids \o ListedStations(w, Head(todo)),
                       Append(ys, Head(todo)), failAt)

\* get_lineups() consumed to its end (for lineup in lineups, or
\* list(self.get_lineups())).  The login guard runs at the call, the body on
\* the first next(): the status request, then the loop.
RunLineups(w, failAt) ==
    IF token = None THEN Outcome(w, "LoginRequired", <<>>)
    ELSE IF Refused(w, failAt)
    THEN Outcome(Request(w, "status", None), "ErrorResponse", <<>>)
    ELSE LineupLoop(Request(w, "status", None),
                    StatusModelLineups(StatusResponse), <<>>, <<>>, failAt)

\* A plausible slip: the station ids are stored on the client as they are
\* collected, so a generator left at a yield has already assigned them.
RECURSIVE LineupStepsEager(_, _, _, _, _, _)
LineupStepsEager(w, todo, ids, ys, n, failAt) ==
    IF todo = <<>>
    THEN [w |-> [w EXCEPT !.station_ids = AttrList(ids)], exc |-> None,
          ys |-> ys, suspended |-> FALSE]
    ELSE IF n = 0
    THEN [w |-> [w EXCEPT !.station_ids = AttrList(ids)], exc |-> None,
          ys |-> ys, suspended |-> TRUE]
    ELSE IF Refused(w, failAt)
    THEN [w |-> Request(w, "lineups", Head(todo)), exc |-> "ErrorResponse",
          ys |-> ys, suspended |-> FALSE]
    ELSE LET w1 == Request(w, "lineups", Head(todo))
             w2 == [w1 EXCEPT !.out.lineups = Append(@, Head(todo))]
         IN LineupStepsEager(w2, Tail(todo),
                             ids \o ListedStations(w, Head(todo)),
                             Append(ys, Head(todo)), n - 1, failAt)

\* The loop over status.lineups advanced by n yields: after the n-th yield
\* the generator is suspended and nothing behind the yield has run, in
\* particular not the assignment of self._station_ids after the loop.  A
\* generator asked for more than it has runs off its end.
RECURSIVE LineupSteps(_, _, _, _, _, _)
LineupSteps(w, todo, ids, ys, n, failAt) ==
    IF n = 0
    THEN [w |-> w, exc |-> None, ys |-> ys, suspended |-> TRUE]
    ELSE IF todo = <<>>
    THEN [w |-> [w EXCEPT !.station_ids = AttrList(ids)], exc |-> None,
          ys |-> ys, suspended |-> FALSE]
    ELSE IF Refused(w, failAt)
    THEN [w |-> Request(w, "lineups", Head(todo)), exc |-> "ErrorResponse",
          ys |-> ys, suspended |-> FALSE]
    ELSE LET w1 == Request(w, "lineups", Head(todo))
             w2 == [w1 EXCEPT !.out.lineups = Append(@, Head(todo))]
         IN LineupSteps(w2, Tail(todo), ids \o ListedStations(w, Head(todo)),
                        Append(ys, Head(todo)), n - 1, failAt)

\* get_lineups() advanced by n next() calls and then dropped.
AdvanceLineups(w, n, failAt) ==
    IF token = None
    THEN [w |-> w, exc |-> "LoginRequired", ys |-> <<>>, suspended |-> FALSE]
    ELSE IF Refused(w, failAt)
    THEN [w |-> Request(w, "status", None), exc |-> "ErrorResponse",
          ys |-> <<>>, suspended |-> FALSE]
    ELSE LineupSteps(Request(w, "status", None),
                     StatusModelLineups(StatusResponse), <<>>, <<>>, n,
                     failAt)

\* ----------------------------------------------------- chunker, groupby
\* A plausible slip: everything goes out in one chunk.
ChunksWhole(seq, size) == IF seq = <<>> THEN <<>> ELSE <<seq>>

\* chunker(iterable, size) over a list, each chunk consumed in turn.
RECURSIVE Chunks(_, _)
Chunks(seq, size) ==
    IF seq = <<>> THEN <<>>
    ELSE IF Len(seq) <= size THEN <<seq>>
    ELSE <<SubSeq(seq, 1, size)>> \o Chunks(SubSeq(seq, size + 1, Len(seq)), size)

\* Items handed to a chunker on its own, the longest input and the largest
\* chunk size.
ChunkItems == {"a", "b"}

MaxChunkInput == 4

MaxChunkSize == 3

\* The inputs: every list of at most MaxChunkInput items.
ChunkInputs == UNION {[1..n -> ChunkItems] : n \in 0..MaxChunkInput}

\* islice(iterator, n) consumed to its end, the iterator having handed out
\* p items of seq: the next n items, or those that are left.
Islice(seq, p, n) == SubSeq(seq, p + 1, Min({p + n, Len(seq)}))

\* A plausible slip: islice(iterator, size), so that a chunk has one item
\* more than size.
NextChunkOneMore(seq, p, size) == <<seq[p + 1]>> \o Islice(seq, p + 1, size)

\* chain([first], islice(iterator, size - 1)) consumed to its end, first
\* being the item the for loop drew after p items.
NextChunk(seq, p, size) == <<seq[p + 1]>> \o Islice(seq, p + 1, size - 1)

ChunkerIdle ==
    chk = [seq |-> <<>>, size |-> 1, pos |-> 0, chunks |-> <<>>,
           done |-> FALSE]

\* chunker(seq, size) called with a list and a positive size, as each of
\* its calls in the client is; nothing has run yet.
InitChunker ==
    \E seq \in ChunkInputs, size \in 1..MaxChunkSize :
       chk = [seq |-> seq, size |-> size, pos |-> 0, chunks |-> <<>>,
              done |-> FALSE]

\* next() on the generator while the iterator has an item: the for loop
\* draws first, the chunk is yielded, and the consumer reads it to its end.
ChunkerNext ==
    /\ ~chk.done
    /\ chk.pos < Len(chk.seq)
    /\ LET c == NextChunk(chk.seq, chk.pos, chk.size)
       IN chk' = [chk EXCEPT !.chunks = Append(@, c), !.pos = @ + Len(c)]
    /\ UNCHANGED <<dvars, pvars, lvars, svars, mvars>>

\* next() on the generator when the iterator has no item left: the for
\* loop ends and the generator raises StopIteration.
ChunkerStop ==
    /\ ~chk.done
    /\ chk.pos = Len(chk.seq)
    /\ chk' = [chk EXCEPT !.done = TRUE]
    /\ UNCHANGED <<dvars, pvars, lvars, svars, mvars>>

\* _diff(old, new) consumed to its end: the dict it leaves and the keys it
\* yielded.
RECURSIVE DiffAll(_, _, _, _)
DiffAll(o, n, i, acc) ==
    IF i > Len(n) THEN [old |-> o, keys |-> acc]
    ELSE IF Changed(o, n[i])
    THEN DiffAll(Bind(o, n[i][1], n[i][2]), n, i + 1, Append(acc, n[i][1]))
    ELSE DiffAll(o, n, i + 1, acc)

\* A plausible slip: only the first day of each group is kept, as when the
\* group iterator is read after groupby has moved on.
RECURSIVE GroupByFirstDay(_, _)
GroupByFirstDay(keys, acc) ==
    IF keys = <<>> THEN acc
    ELSE LET k == Head(keys) IN
         IF acc # <<>> /\ acc[Len(acc)].stationID = k[1]
         THEN GroupByFirstDay(Tail(keys), acc)
         ELSE GroupByFirstDay(Tail(keys),
                      Append(acc, [stationID |-> k[1], date |-> <<k[2]>>]))

\* groupby(keys, lambda x: x[0]) with each group turned into
\* {'stationID': station, 'date': [d[1] for d in days]}: adjacent keys of
\* one station form one group.
RECURSIVE GroupBy(_, _)
GroupBy(keys, acc) ==
    IF keys = <<>> THEN acc
    ELSE LET k == Head(keys) IN
         IF acc # <<>> /\ acc[Len(acc)].stationID = k[1]
         THEN GroupBy(Tail(keys),
                      [acc EXCEPT ![Len(acc)].date = Append(@, k[2])])
         ELSE GroupBy(Tail(keys),
                      Append(acc, [stationID |-> k[1], date |-> <<k[2]>>]))

\* ---------------------------------------------------------- get_schedules
\* POST /schedules/md5 for a chunk of station ids, flattened to
\* ((station_id, day), md5) pairs.  The response is a dict keyed by station.
RECURSIVE ManifestPairs(_, _)
ManifestPairs(stations, seen) ==
    IF stations = <<>> THEN <<>>
    ELSE LET st == Head(stations) IN
         IF st \in seen THEN ManifestPairs(Tail(stations), seen)
         ELSE [i \in DOMAIN ManifestDays(st) |->
                  << <<st, ManifestDays(st)[i]>>,
                     srv.smd5[<<st, ManifestDays(st)[i]>>] >>]
              \o ManifestPairs(Tail(stations), seen \cup {st})

\* The loop over chunker(self._station_ids, 5000): one manifest request
\* per chunk.
RECURSIVE ManifestLoop(_, _, _, _)
ManifestLoop(w, chunks, shashes, failAt) ==
    IF chunks = <<>> THEN [w |-> w, exc |-> None, shashes |-> shashes]
    ELSE IF Refused(w, failAt)
    THEN [w |-> Request(w, "schedules/md5", Head(chunks)),
          exc |-> "ErrorResponse", shashes |-> shashes]
    ELSE ManifestLoop(Request(w, "schedules/md5", Head(chunks)),
                      Tail(chunks),
                      shashes \o ManifestPairs(Head(chunks), {}), failAt)

\* The date part of an ISO timestamp, modelled as <<date, time>>:
\* _parse_datetime(text).date().strftime('%Y-%m-%d')
DayOf(airDateTime) == airDateTime[1]

\* POST /schedules: one entry per requested (station, day), in request
\* order; a failing slot answers with an error envelope.
RECURSIVE ScheduleEntries(_)
ScheduleEntries(station_days) ==
    IF station_days = <<>> THEN <<>>
    ELSE LET sd == Head(station_days) IN
         [i \in DOMAIN sd.date |->
            LET slot == <<sd.stationID, sd.date[i]>> IN
            IF slot \in srv.errSlots
            THEN [stationID |-> sd.stationID, response |-> "ERROR",
                  airDateTime |-> <<sd.date[i], "00:00:00Z">>,
                  programs |-> <<>>]
            ELSE [stationID |-> sd.stationID, response |-> None,
                  airDateTime |-> <<sd.date[i], "00:00:00Z">>,
                  programs |->
                     [j \in DOMAIN SlotPrograms(slot) |->
                        [programID |-> SlotPrograms(slot)[j],
                         md5 |-> srv.pmd5[SlotPrograms(slot)[j]],
                         airDateTime |-> <<sd.date[i], j>>,
                         duration |-> 30]]]]
         \o ScheduleEntries(Tail(station_days))

\* store.remove_schedule(key).  client.py calls it; no store class under
\* src/ defines it.  Modelled from the specification (section 4.4, step 6):
\* the key is evicted from the in-memory schedule change state.
RemoveSchedule(m, key) == [k \in DOMAIN m \ {key} |-> m[k]]

\* A plausible slip: break instead of continue, so an error envelope ends
\* the loop over the entries of the response.
RECURSIVE EntryLoopBreak(_, _, _, _, _)
EntryLoopBreak(w, entries, dold, pids, ys) ==
    IF entries = <<>> THEN [w |-> w, dold |-> dold, pids |-> pids, ys |-> ys]
    ELSE LET e == Head(entries)
             key == <<e.stationID, DayOf(e.airDateTime)>>
         IN IF e.response # None
            THEN [w |-> [w EXCEPT !.out.errEntries = Append(@, key)],
                  dold |-> RemoveSchedule(dold, key), pids |-> pids, ys |-> ys]
            ELSE EntryLoopBreak([w EXCEPT !.out.schedules = Append(@, key)],
                                Tail(entries), dold,
                                pids \o [j \in DOMAIN e.programs |->
                                            <<e.programs[j].programID,
                                              e.programs[j].md5>>],
                                Append(ys, e))

\* for schedule in data: an error envelope has its (station, day) removed
\* from the store and is skipped; any other entry adds its (programID, md5)
\* pairs and is yielded as a ScheduleModel.  dold is the dict the schedule
\* diff works on.
RECURSIVE EntryLoop(_, _, _, _, _)
EntryLoop(w, entries, dold, pids, ys) ==
    IF entries = <<>> THEN [w |-> w, dold |-> dold, pids |-> pids, ys |-> ys]
    ELSE LET e == Head(entries)
             key == <<e.stationID, DayOf(e.airDateTime)>>
         IN IF e.response # None
            THEN EntryLoop([w EXCEPT !.out.errEntries = Append(@, key)],
                           Tail(entries), RemoveSchedule(dold, key), pids, ys)
            ELSE EntryLoop([w EXCEPT !.out.schedules = Append(@, key)],
                           Tail(entries), dold,
                           pids \o [j \in DOMAIN e.programs |->
                                       <<e.programs[j].programID,
                                         e.programs[j].md5>>],
                           Append(ys, e))

\* The (station, day) keys a chunk of station_days was built from.
RECURSIVE KeysOf(_)
KeysOf(station_days) ==
    IF station_days = <<>> THEN <<>>
    ELSE [i \in DOMAIN Head(station_days).date |->
             <<Head(station_days).stationID, Head(station_days).date[i]>>]
         \o KeysOf(Tail(station_days))

\* self._schedules = old, reached when diff_schedules runs off its end.
BindSchedules(w, o) ==
    [w EXCEPT !.mem.bound = @ \cup {"schedules"}, !.mem.schedules = o]

\* The loop over chunker(groupby(diff_schedules(shashes)), 5000).  The diff
\* is exhausted (and the store's _schedules bound to its dict) while the
\* days of the last group are read, that is before the request of the last
\* chunk; from then on the store's map and the diff's dict are one object.
RECURSIVE ScheduleLoop(_, _, _, _, _, _)
ScheduleLoop(w, chunks, dold, pids, ys, failAt) ==
    IF chunks = <<>>
    THEN Outcome([w EXCEPT !.program_ids = AttrList(pids)], None, ys)
    ELSE LET last == Len(chunks) = 1
             w0 == IF last THEN BindSchedules(w, dold) ELSE w
             w1 == [w0 EXCEPT !.out.schedChanged = @ \o KeysOf(Head(chunks))]
             sent == Request(w1, "schedules", Head(chunks))
         IN IF Refused(w1, failAt)
            THEN Outcome(sent, "ErrorResponse", ys)
            ELSE LET r == EntryLoop(sent, ScheduleEntries(Head(chunks)),
                                    dold, pids, ys)
                     w2 == IF last THEN BindSchedules(r.w, r.dold) ELSE r.w
                 IN ScheduleLoop(w2, Tail(chunks), r.dold, r.pids, r.ys,
                                 failAt)

\* A plausible slip: get_schedules fetches the lineups whether or not the
\* station ids are there already.
RunSchedulesRefetch(w, failAt) ==
    IF token = None THEN Outcome(w, "LoginRequired", <<>>)
    ELSE IF w.station_ids.st = "deleted"
    THEN Outcome(w, "AttributeError(_station_ids)", <<>>)
    ELSE LET pre == RunLineups(w, failAt)
         IN IF pre.exc # None THEN Outcome(pre.w, pre.exc, <<>>)
            ELSE LET m == ManifestLoop(
                            pre.w, Chunks(pre.w.station_ids.v, StationChunk),
                            <<>>, failAt)
                 IN IF m.exc # None THEN Outcome(m.w, m.exc, <<>>)
                    ELSE LET d == DiffAll(m.w.disk.schedules, m.shashes,
                                          1, <<>>)
                             groups == GroupBy(d.keys, <<>>)
                         IN IF groups = <<>>
                            THEN ScheduleLoop(BindSchedules(m.w, d.old),
                                              <<>>, d.old, <<>>, <<>>, failAt)
                            ELSE ScheduleLoop(m.w,
                                              Chunks(groups, StationChunk),
                                              d.old, <<>>, <<>>, failAt)

\* get_schedules() consumed to its end.
RunSchedules(w, failAt) ==
    IF token = None THEN Outcome(w, "LoginRequired", <<>>)
    ELSE IF w.station_ids.st = "deleted"
    THEN Outcome(w, "AttributeError(_station_ids)", <<>>)
    ELSE LET pre == IF w.station_ids.st = "None"
                    THEN RunLineups(w, failAt)
                    ELSE Outcome(w, None, <<>>)
         IN IF pre.exc # None THEN Outcome(pre.w, pre.exc, <<>>)
            ELSE LET m == ManifestLoop(
                            pre.w, Chunks(pre.w.station_ids.v, StationChunk),
                            <<>>, failAt)
                 IN IF m.exc # None THEN Outcome(m.w, m.exc, <<>>)
                    ELSE LET d == DiffAll(m.w.disk.schedules, m.shashes,
                                          1, <<>>)
                             groups == GroupBy(d.keys, <<>>)
                         IN IF groups = <<>>
                            THEN ScheduleLoop(BindSchedules(m.w, d.old),
                                              <<>>, d.old, <<>>, <<>>, failAt)
                            ELSE ScheduleLoop(m.w,
                                              Chunks(groups, StationChunk),
                                              d.old, <<>>, <<>>, failAt)

\* for schedule in data, advanced until n more schedules were yielded or
\* the entries are used up; n is what is still to be yielded.
RECURSIVE EntrySteps(_, _, _, _, _, _)
EntrySteps(w, entries, dold, pids, ys, n) ==
    IF entries = <<>> \/ n = 0
    THEN [w |-> w, dold |-> dold, pids |-> pids, ys |-> ys, n |-> n]
    ELSE LET e == Head(entries)
             key == <<e.stationID, DayOf(e.airDateTime)>>
         IN IF e.response # None
            THEN EntrySteps([w EXCEPT !.out.errEntries = Append(@, key)],
                            Tail(entries), RemoveSchedule(dold, key), pids,
                            ys, n)
            ELSE EntrySteps([w EXCEPT !.out.schedules = Append(@, key)],
                            Tail(entries), dold,
                            pids \o [j \in DOMAIN e.programs |->
                                        <<e.programs[j].programID,
                                          e.programs[j].md5>>],
                            Append(ys, e), n - 1)

\* The loop over the chunks of changed schedules advanced by n yields:
\* after the n-th yield the generator is suspended, and the assignment of
\* self._program_ids after the loop has not run.
RECURSIVE ScheduleSteps(_, _, _, _, _, _, _)
ScheduleSteps(w, chunks, dold, pids, ys, n, failAt) ==
    IF chunks = <<>>
    THEN [w |-> [w EXCEPT !.program_ids = AttrList(pids)], exc |-> None,
          ys |-> ys, suspended |-> FALSE]
    ELSE LET last == Len(chunks) = 1
             w0 == IF last THEN BindSchedules(w, dold) ELSE w
             w1 == [w0 EXCEPT !.out.schedChanged = @ \o KeysOf(Head(chunks))]
             sent == Request(w1, "schedules", Head(chunks))
         IN IF Refused(w1, failAt)
            THEN [w |-> sent, exc |-> "ErrorResponse", ys |-> ys,
                  suspended |-> FALSE]
            ELSE LET r == EntrySteps(sent, ScheduleEntries(Head(chunks)),
                                     dold, pids, ys, n)
                     w2 == IF last THEN BindSchedules(r.w, r.dold) ELSE r.w
                 IN IF r.n = 0
                    THEN [w |-> w2, exc |-> None, ys |-> r.ys,
                          suspended |-> TRUE]
                    ELSE ScheduleSteps(w2, Tail(chunks), r.dold, r.pids,
                                       r.ys, r.n, failAt)

\* get_schedules() advanced by n next() calls and then dropped.  What
\* comes before the loop runs on the first next(), to its end.
AdvanceSchedules(w, n, failAt) ==
    LET stop(wx, exc) == [w |-> wx, exc |-> exc, ys |-> <<>>,
                          suspended |-> FALSE]
    IN
    IF token = None THEN stop(w, "LoginRequired")
    ELSE IF w.station_ids.st = "deleted"
    THEN stop(w, "AttributeError(_station_ids)")
    ELSE LET pre == IF w.station_ids.st = "None"
                    THEN RunLineups(w, failAt)
                    ELSE Outcome(w, None, <<>>)
         IN IF pre.exc # None THEN stop(pre.w, pre.exc)
            ELSE LET m == ManifestLoop(
                            pre.w, Chunks(pre.w.station_ids.v, StationChunk),
                            <<>>, failAt)
                 IN IF m.exc # None THEN stop(m.w, m.exc)
                    ELSE LET d == DiffAll(m.w.disk.schedules, m.shashes,
                                          1, <<>>)
                             groups == GroupBy(d.keys, <<>>)
                         IN IF groups = <<>>
                            THEN ScheduleSteps(BindSchedules(m.w, d.old),
                                               <<>>, d.old, <<>>, <<>>, n,
                                               failAt)
                            ELSE ScheduleSteps(m.w,
                                               Chunks(groups, StationChunk),
                                               d.old, <<>>, <<>>, n, failAt)

\* ------------------------------------------------------------- the store
\* A plausible slip: the program diff starts from an empty dict, as with a
\* NullStore.
LoadProgramsEmpty(w) == EmptyMap

\* PickleStore.load_programs(): the pickled dict, {} when there is no file.
LoadPrograms(w) == w.disk.programs

\* BaseStore.save(): save_lineups(self._lineups), save_schedules(
\* self._schedules), save_programs(self._programs), in this order.  Reading
\* an attribute no diff has bound raises AttributeError (which names the
\* attribute); the files written before that stay written.  out.saves
\* records, for each invocation, how many requests the operation had issued
\* by then.
Save(w) ==
    LET w0 == [w EXCEPT !.saveCalls = @ + 1,
                        !.out.saves = Append(@, Len(w.reqs))]
    IN
    IF "lineups" \notin w0.mem.bound
    THEN Outcome(w0, "AttributeError(_lineups)", <<>>)
    ELSE LET w1 == [w0 EXCEPT !.disk.lineups = w0.mem.lineups] IN
    IF "schedules" \notin w1.mem.bound
    THEN Outcome(w1, "AttributeError(_schedules)", <<>>)
    ELSE LET w2 == [w1 EXCEPT !.disk.schedules = w1.mem.schedules] IN
    IF "programs" \notin w2.mem.bound
    THEN Outcome(w2, "AttributeError(_programs)", <<>>)
    ELSE Outcome([w2 EXCEPT !.disk.programs = w2.mem.programs], None, <<>>)

\* A plausible slip: the store saves as soon as the program diff is
\* exhausted, instead of leaving it to the end of get_programs.
BindProgramsAndSave(w, o) ==
    Save([w EXCEPT !.mem.bound = @ \cup {"programs"}, !.mem.programs = o]).w

\* self._programs = old, reached when diff_programs runs off its end.
BindPrograms(w, o) ==
    [w EXCEPT !.mem.bound = @ \cup {"programs"}, !.mem.programs = o]

\* ----------------------------------------------------------- get_programs
\* POST /programs: one object per requested id the server knows, in
\* request order.
ProgramsResponse(data) ==
    LET known == SelectSeq(data, LAMBDA q : ~(srv.gaps = "program" /\ q = P1))
    IN [i \in DOMAIN known |->
           [programID |-> known[i], md5 |-> srv.pmd5[known[i]]]]

\* POST /metadata/description: a dict keyed by program id, or an empty
\* list.  list: the body is a list; d: the dict otherwise.
MetadataResponse(data) ==
    IF srv.gaps = "metalist" THEN [list |-> TRUE, d |-> EmptyMap]
    ELSE [list |-> FALSE,
          d |-> [q \in {x \in Range(data) :
                           ~(srv.gaps = "metadata" /\ x = P1)} |->
                    [description100 |-> "short"]]]

\* POST /metadata/programs: a list of {programID: first ten characters,
\* data: [artwork...]}, one per requested key the server has artwork for;
\* code 5000 stands for data being the not-found dict.
ArtworkResponse(data) ==
    LET known == SelectSeq(data, LAMBDA r :
                     ~(srv.gaps = "artwork" /\ r = Trunc10(P1)))
    IN [i \in DOMAIN known |->
           IF srv.gaps = "placeholder" /\ known[i] = Trunc10(P1)
           THEN [programID |-> known[i], code |-> 5000, data |-> <<>>]
           ELSE [programID |-> known[i], code |-> 0, data |-> <<"art">>]]

\* The artwork dict built from the response: entries whose data is a dict
\* with code 5000 are skipped; a later entry of the same key replaces an
\* earlier one.
ArtworkDict(items) ==
    LET kept == {i \in DOMAIN items : items[i].code # 5000} IN
    [r \in {items[i].programID : i \in kept} |->
        items[Max({i \in kept : items[i].programID = r})].data]

\* A plausible slip: airtimes[program.id] = [airtime], so a later airing of
\* a program replaces the earlier ones.
RECURSIVE AirtimesLastOnly(_, _, _)
AirtimesLastOnly(entries, stations, acc) ==
    IF entries = <<>> THEN [exc |-> None, airtimes |-> acc]
    ELSE LET e == Head(entries) IN
         IF e.programs # <<>> /\ e.stationID \notin stations
         THEN [exc |-> "KeyError", airtimes |-> acc]
         ELSE LET add == [j \in DOMAIN e.programs |->
                            [airDateTime |-> e.programs[j].airDateTime,
                             duration |-> e.programs[j].duration,
                             programID |-> e.programs[j].programID,
                             stationID |-> e.stationID]]
                  touched == {add[j].programID : j \in DOMAIN add}
                  mine(q) == SelectSeq(add, LAMBDA a : a.programID = q)
              IN AirtimesLastOnly(Tail(entries), stations,
                          [q \in DOMAIN acc \cup touched |->
                              IF q \in touched
                              THEN <<mine(q)[Len(mine(q))]>>
                              ELSE acc[q]])

\* Building airtimes from the consumed schedules: one airtime per program of
\* each ScheduleModel, merged with the data of its station.  stations[...]
\* raises KeyError for a station no lineup listed.
RECURSIVE Airtimes(_, _, _)
Airtimes(entries, stations, acc) ==
    IF entries = <<>> THEN [exc |-> None, airtimes |-> acc]
    ELSE LET e == Head(entries) IN
         IF e.programs # <<>> /\ e.stationID \notin stations
         THEN [exc |-> "KeyError", airtimes |-> acc]
         ELSE LET add == [j \in DOMAIN e.programs |->
                            [airDateTime |-> e.programs[j].airDateTime,
                             duration |-> e.programs[j].duration,
                             programID |-> e.programs[j].programID,
                             stationID |-> e.stationID]]
                  touched == {add[j].programID : j \in DOMAIN add}
                  mine(q) == SelectSeq(add, LAMBDA a : a.programID = q)
              IN Airtimes(Tail(entries), stations,
                          [q \in DOMAIN acc \cup touched |->
                              Get2(acc, q) \o mine(q)])

\* A plausible slip: the merge loop runs over the requested ids instead of
\* the objects of the response.
PendingRequested(programs, data) ==
    [i \in DOMAIN data |-> [programID |-> data[i], md5 |-> srv.pmd5[data[i]]]]

\* for program in programs: the merge loop runs over the objects of the
\* /programs response; data (the requested ids) plays no part in it.
Pending(programs, data) == programs

\* metadata.pop(pid): TypeError on a list (pop takes an index), KeyError on
\* a dict without the key, else the entry, which leaves the dict.
MetadataPop(md, pid) ==
    IF md.list
    THEN [exc |-> "TypeError", has |-> FALSE, v |-> EmptyMap, rest |-> md]
    ELSE IF pid \notin DOMAIN md.d
    THEN [exc |-> "KeyError", has |-> FALSE, v |-> EmptyMap, rest |-> md]
    ELSE [exc |-> None, has |-> TRUE, v |-> md.d[pid],
          rest |-> [md EXCEPT !.d = [q \in DOMAIN @ \ {pid} |-> @[q]]]]

\* A plausible slip: only the KeyError of a missing entry is caught.
MetadataCaughtKeyOnly == {"KeyError"}

\* except (TypeError, AttributeError): pass / except KeyError: pass
MetadataCaught == {"TypeError", "AttributeError", "KeyError"}

\* artwork.pop(program['programID'][:10])['data']: KeyError without the
\* key, else the entry's data; the entry leaves the dict.
ArtworkPop(aw, key) ==
    IF key \notin DOMAIN aw
    THEN [exc |-> "KeyError", has |-> FALSE, v |-> <<>>, rest |-> aw]
    ELSE [exc |-> None, has |-> TRUE, v |-> aw[key],
          rest |-> [r \in DOMAIN aw \ {key} |-> aw[r]]]

\* except KeyError: pass
ArtworkCaught == {"KeyError"}

GenFrame ==
    [pc |-> "start", lineups |-> AttrNone, airtimes |-> EmptyMap,
     changed |-> <<>>, dpos |-> 0, dold |-> EmptyMap, pending |-> <<>>,
     metadata |-> [list |-> FALSE, d |-> EmptyMap], artwork |-> EmptyMap,
     schedules |-> AttrNone]

\* No get_programs() generator exists yet.
NoGen == [GenFrame EXCEPT !.pc = "none"]

\* The rest of get_programs from inside its batch loop, up to the next
\* yield, the return after save(), or an exception.  The merged record
\* lists in fields which of the optional parts it carries.
RECURSIVE BatchStep(_, _, _)
BatchStep(w, f, failAt) ==
    IF f.pending # <<>>
    THEN \* for program in programs: merge and yield
         LET prog == Head(f.pending)
             pid == prog.programID
         IN IF pid \notin DOMAIN f.airtimes
            THEN [w |-> w, f |-> [f EXCEPT !.pc = "raised"], exc |-> "KeyError"]
            ELSE LET md == MetadataPop(f.metadata, pid)
                     aw == ArtworkPop(f.artwork, Trunc10(pid))
                     f1 == [f EXCEPT
                              !.airtimes = [q \in DOMAIN @ \ {pid} |-> @[q]],
                              !.metadata = md.rest]
                     merged ==
                       [programID |-> pid,
                        md5 |-> prog.md5,
                        schedules |-> f.airtimes[pid],
                        fields |-> (IF md.has THEN {"metadata"} ELSE {})
                                   \cup (IF aw.has THEN {"artwork"} ELSE {}),
                        metadata |-> md.v,
                        artwork |-> aw.v]
                 IN IF md.exc # None /\ md.exc \notin MetadataCaught
                    THEN [w |-> w, f |-> [f1 EXCEPT !.pc = "raised"],
                          exc |-> md.exc]
                    ELSE IF aw.exc # None /\ aw.exc \notin ArtworkCaught
                    THEN [w |-> w, f |-> [f1 EXCEPT !.pc = "raised"],
                          exc |-> aw.exc]
                    ELSE [w |-> [w EXCEPT !.out.programs = Append(@, merged)],
                          f |-> [f1 EXCEPT !.pending = Tail(@),
                                           !.artwork = aw.rest],
                          exc |-> None]
    ELSE IF f.dpos = Len(f.changed)
    THEN \* the loop is over: clear the cached data, store the hashes
         LET w1 == BindPrograms(w, f.dold) IN
         IF w1.station_ids.st = "deleted" \/ w1.program_ids.st = "deleted"
         THEN [w |-> w1, f |-> [f EXCEPT !.pc = "raised"],
               exc |-> "AttributeError(_station_ids)"]
         ELSE LET w2 == [w1 EXCEPT !.station_ids = AttrDeleted,
                                   !.program_ids = AttrDeleted]
                  sv == Save(w2)
              IN [w |-> sv.w,
                  f |-> [f EXCEPT !.pc = IF sv.exc = None THEN "done"
                                         ELSE "raised"],
                  exc |-> sv.exc]
    ELSE \* data = list(chunk); three requests; build the artwork dict
         LET last == IF f.dpos + ProgramChunk <= Len(f.changed)
                     THEN f.dpos + ProgramChunk ELSE Len(f.changed)
             data == SubSeq(f.changed, f.dpos + 1, last)
             wb == IF Len(data) < ProgramChunk THEN BindPrograms(w, f.dold)
                   ELSE w
             w0 == [wb EXCEPT !.out.progChanged = @ \o data]
             f0 == [f EXCEPT !.dpos = last]
             w1 == Request(w0, "programs", data)
             w2 == Request(w1, "metadata/description", data)
             data10 == [i \in DOMAIN data |-> Trunc10(data[i])]
             w3 == Request(w2, "metadata/programs", data10)
             fail(wx) == [w |-> wx, f |-> [f0 EXCEPT !.pc = "raised"],
                          exc |-> "ErrorResponse"]
         IN IF Refused(w0, failAt) THEN fail(w1)
            ELSE IF Refused(w1, failAt) THEN fail(w2)
            ELSE IF Refused(w2, failAt) THEN fail(w3)
            ELSE BatchStep(w3,
                           [f0 EXCEPT
                              !.pending = Pending(ProgramsResponse(data),
                                                  data),
                              !.metadata = MetadataResponse(data),
                              !.artwork = ArtworkDict(ArtworkResponse(data10))],
                           failAt)

\* The (programID, md5) pairs of the programs of a sequence of schedules.
RECURSIVE PairsIn(_)
PairsIn(schedules) ==
    IF schedules = <<>> THEN <<>>
    ELSE [j \in DOMAIN Head(schedules).programs |->
             <<Head(schedules).programs[j].programID,
               Head(schedules).programs[j].md5>>]
         \o PairsIn(Tail(schedules))

\* A plausible slip: the pairs are taken from the schedules get_programs
\* iterated, be they its argument or its own get_schedules().
DiffedPairsOfSchedules(w, schedules) == PairsIn(schedules)

\* self.store.diff_programs(self._program_ids): the pairs diffed are the
\* ones held by the client; the schedules iterated play no part.
DiffedPairs(w, schedules) == w.program_ids.v

\* The first next() on get_programs(): consume get_lineups() (or the
\* lineups argument) building the stations dict, consume get_schedules()
\* (or the schedules argument) building airtimes, start the diff of
\* self._program_ids and go on to the first batch.  The diff iterates
\* self._program_ids: that is an AttributeError when the attribute was
\* deleted and a TypeError when it is None.
StartStep(w, f, failAt) ==
    LET l == IF f.lineups.st = "None" THEN RunLineups(w, failAt)
             ELSE Outcome(w, None, f.lineups.v)
        raised(wx, exc) == [w |-> wx, f |-> [f EXCEPT !.pc = "raised"],
                            exc |-> exc]
    IN IF l.exc # None THEN raised(l.w, l.exc)
       ELSE LET stations == UNION {Range(LineupStations(l.ys[i])) :
                                      i \in DOMAIN l.ys}
                s == IF f.schedules.st = "None"
                     THEN RunSchedules(l.w, failAt)
                     ELSE Outcome(l.w, None, f.schedules.v)
            IN IF s.exc # None THEN raised(s.w, s.exc)
               ELSE LET a == Airtimes(s.ys, stations, EmptyMap) IN
                    IF a.exc # None THEN raised(s.w, a.exc)
                    ELSE IF s.w.program_ids.st = "deleted"
                    THEN raised(s.w, "AttributeError(_program_ids)")
                    ELSE IF s.w.program_ids.st = "None"
                    THEN raised(s.w, "TypeError")
                    ELSE LET d == DiffAll(LoadPrograms(s.w),
                                          DiffedPairs(s.w, s.ys), 1, <<>>)
                         IN BatchStep(s.w,
                                      [f EXCEPT !.pc = "batch",
                                                !.airtimes = a.airtimes,
                                                !.changed = d.keys,
                                                !.dold = d.old],
                                      failAt)

\* ---------------------------------------------- the pysd client's phases
\* The world an operation of the SDClient starts from: the client's private
\* fields and its store, nothing requested or produced yet.
PysdWorld ==
    [station_ids |-> prun.station_ids, program_ids |-> prun.program_ids,
     mem |-> prun.mem, disk |-> prun.disk, reqs |-> <<>>, nreq |-> 0,
     saveCalls |-> prun.saveCalls, out |-> NoOut, channels |-> NoChannels]

\* SDClient._request: the Token header is the SDClient's token.
PysdSend(w, path, data) ==
    [w EXCEPT !.reqs = Append(@, <<path, data, pysd.token>>), !.nreq = @ + 1]

\* lhashes = [(l['lineup'], l['modified']) for l in data['lineups']]
LineupHashes(data) ==
    [i \in DOMAIN data.lineups |->
        <<data.lineups[i].lineup, data.lineups[i].modified>>]

\* The pysd store's _diff(old, new) consumed to its end: the dict it leaves
\* and the keys it yielded.
RECURSIVE PysdDiffAll(_, _, _, _)
PysdDiffAll(o, n, i, acc) ==
    IF i > Len(n) THEN [old |-> o, keys |-> acc]
    ELSE IF PysdChanged(o, n[i])
    THEN PysdDiffAll(Bind(o, n[i][1], n[i][2]), n, i + 1,
                     Append(acc, n[i][1]))
    ELSE PysdDiffAll(o, n, i + 1, acc)

\* A plausible slip: the loop runs over every lineup of the status, as the
\* one of SDGrabber.get_lineups does.
LineupsOfStatus(o, lhashes) ==
    [PysdDiffAll(o, lhashes, 1, <<>>) EXCEPT
        !.keys = [i \in DOMAIN lhashes |-> lhashes[i][1]]]

\* for name in self.store.diff_lineups(lhashes): the names the loop runs
\* over, and the dict the diff leaves.
LineupsToFetch(o, lhashes) == PysdDiffAll(o, lhashes, 1, <<>>)

\* self._lineups = old, reached when diff_lineups runs off its end.
BindLineups(w, o) ==
    [w EXCEPT !.mem.bound = @ \cup {"lineups"}, !.mem.lineups = o]

\* The loop over the changed lineup names, to the end: request the lineup,
\* extend station_ids with all its stations, yield its LineupModel.  The
\* diff runs off its end when the loop asks for the name after the last.
RECURSIVE PysdLineupLoop(_, _, _, _, _, _)
PysdLineupLoop(w, todo, dold, ids, ys, failAt) ==
    IF todo = <<>>
    THEN Outcome([BindLineups(w, dold) EXCEPT !.station_ids = AttrList(ids)],
                 None, ys)
    ELSE IF Refused(w, failAt)
    THEN Outcome(PysdSend(w, "lineups", Head(todo)), "ErrorResponse", ys)
    ELSE LET w1 == PysdSend(w, "lineups", Head(todo))
             w2 == [w1 EXCEPT !.out.lineups = Append(@, Head(todo))]
         IN PysdLineupLoop(w2, Tail(todo), dold,
                           ids \o LineupStations(Head(todo)),
                           Append(ys, Head(todo)), failAt)

\* SDClient.get_lineups() consumed to its end.
PysdRunLineups(w, failAt) ==
    IF Refused(w, failAt)
    THEN Outcome(PysdSend(w, "status", None), "ErrorResponse", <<>>)
    ELSE LET d == LineupsToFetch(w.disk.lineups, LineupHashes(StatusResponse))
         IN PysdLineupLoop(PysdSend(w, "status", None), d.keys, d.old,
                           <<>>, <<>>, failAt)

\* The loop over chunker(self._station_ids, 5000).
RECURSIVE PysdManifestLoop(_, _, _, _)
PysdManifestLoop(w, chunks, shashes, failAt) ==
    IF chunks = <<>> THEN [w |-> w, exc |-> None, shashes |-> shashes]
    ELSE IF Refused(w, failAt)
    THEN [w |-> PysdSend(w, "schedules/md5", Head(chunks)),
          exc |-> "ErrorResponse", shashes |-> shashes]
    ELSE PysdManifestLoop(PysdSend(w, "schedules/md5", Head(chunks)),
                          Tail(chunks),
                          shashes \o ManifestPairs(Head(chunks), {}), failAt)

\* for schedule in data: every entry adds its (programID, md5) pairs and is
\* yielded; schedule['programs'] raises KeyError on an error envelope,
\* which has no such field.
RECURSIVE PysdEntryLoop(_, _, _, _)
PysdEntryLoop(w, entries, pids, ys) ==
    IF entries = <<>> THEN [w |-> w, exc |-> None, pids |-> pids, ys |-> ys]
    ELSE LET e == Head(entries)
             key == <<e.stationID, DayOf(e.airDateTime)>>
         IN IF e.response # None
            THEN [w |-> w, exc |-> "KeyError", pids |-> pids, ys |-> ys]
            ELSE PysdEntryLoop([w EXCEPT !.out.schedules = Append(@, key)],
                               Tail(entries),
                               pids \o PairsIn(<<e>>), Append(ys, e))

\* The loop over chunker(groupby(diff_schedules(shashes)), 5000); the
\* entries of station_days carry their days under 'days'.  The diff is
\* exhausted while the days of the last group are read.
RECURSIVE PysdScheduleLoop(_, _, _, _, _, _)
PysdScheduleLoop(w, chunks, dold, pids, ys, failAt) ==
    IF chunks = <<>>
    THEN Outcome([w EXCEPT !.program_ids = AttrList(pids)], None, ys)
    ELSE LET w0 == IF Len(chunks) = 1 THEN BindSchedules(w, dold) ELSE w
             w1 == [w0 EXCEPT !.out.schedChanged = @ \o KeysOf(Head(chunks))]
             sent == PysdSend(w1, "schedules", Head(chunks))
         IN IF Refused(w1, failAt)
            THEN Outcome(sent, "ErrorResponse", ys)
            ELSE LET r == PysdEntryLoop(sent, ScheduleEntries(Head(chunks)),
                                        pids, ys)
                 IN IF r.exc # None THEN Outcome(r.w, r.exc, r.ys)
                    ELSE PysdScheduleLoop(r.w, Tail(chunks), dold, r.pids,
                                          r.ys, failAt)

\* SDClient._get_schedules() consumed to its end.
PysdRunSchedules(w, failAt) ==
    IF w.station_ids.st = "deleted"
    THEN Outcome(w, "AttributeError(_station_ids)", <<>>)
    ELSE LET pre == IF w.station_ids.st = "None"
                    THEN PysdRunLineups(w, failAt)
                    ELSE Outcome(w, None, <<>>)
         IN IF pre.exc # None THEN Outcome(pre.w, pre.exc, <<>>)
            ELSE LET m == PysdManifestLoop(
                            pre.w, Chunks(pre.w.station_ids.v, StationChunk),
                            <<>>, failAt)
                 IN IF m.exc # None THEN Outcome(m.w, m.exc, <<>>)
                    ELSE LET d == PysdDiffAll(m.w.disk.schedules, m.shashes,
                                              1, <<>>)
                             groups == GroupBy(d.keys, <<>>)
                         IN IF groups = <<>>
                            THEN PysdScheduleLoop(BindSchedules(m.w, d.old),
                                                  <<>>, d.old, <<>>, <<>>,
                                                  failAt)
                            ELSE PysdScheduleLoop(m.w,
                                                  Chunks(groups, StationChunk),
                                                  d.old, <<>>, <<>>, failAt)

\* schedules[program.id] = {airDateTime, duration, stationID}: one airing
\* per program id, that of the last schedule that lists it.
RECURSIVE PysdAirings(_, _)
PysdAirings(entries, acc) ==
    IF entries = <<>> THEN acc
    ELSE LET e == Head(entries)
             touched == {e.programs[j].programID : j \in DOMAIN e.programs}
             at(q) == Max({j \in DOMAIN e.programs :
                              e.programs[j].programID = q})
         IN PysdAirings(Tail(entries),
                        [q \in DOMAIN acc \cup touched |->
                            IF q \in touched
                            THEN [airDateTime |-> e.programs[at(q)].airDateTime,
                                  duration |-> e.programs[at(q)].duration,
                                  stationID |-> e.stationID]
                            ELSE acc[q]])

\* for program in programs: merge and yield, to the end of the response.
RECURSIVE PysdMergeLoop(_, _, _, _, _)
PysdMergeLoop(w, pending, airings, md, aw) ==
    IF pending = <<>> THEN [w |-> w, exc |-> None, airings |-> airings]
    ELSE LET pid == Head(pending).programID IN
         IF pid \notin DOMAIN airings
         THEN [w |-> w, exc |-> "KeyError", airings |-> airings]
         ELSE LET m == MetadataPop(md, pid)
                  a == ArtworkPop(aw, Trunc10(pid))
                  merged ==
                    [programID |-> pid,
                     md5 |-> Head(pending).md5,
                     airDateTime |-> airings[pid].airDateTime,
                     duration |-> airings[pid].duration,
                     stationID |-> airings[pid].stationID,
                     fields |-> (IF m.has THEN {"metadata"} ELSE {})
                                \cup (IF a.has THEN {"artwork"} ELSE {}),
                     metadata |-> m.v,
                     artwork |-> a.v]
              IN PysdMergeLoop(
                    [w EXCEPT !.out.programs = Append(@, merged)],
                    Tail(pending),
                    [q \in DOMAIN airings \ {pid} |-> airings[q]],
                    m.rest, a.rest)

\* The loop over chunker(self.store.diff_programs(self._program_ids), 500)
\* to its end, and what follows it: del self._station_ids,
\* del self._program_ids, self.store.save().
RECURSIVE PysdBatchLoop(_, _, _, _, _, _)
PysdBatchLoop(w, changed, dpos, dold, airings, failAt) ==
    IF dpos = Len(changed)
    THEN LET w1 == BindPrograms(w, dold)
             w2 == [w1 EXCEPT !.station_ids = AttrDeleted,
                              !.program_ids = AttrDeleted]
             sv == Save(w2)
         IN Outcome(sv.w, sv.exc, <<>>)
    ELSE LET last == IF dpos + ProgramChunk <= Len(changed)
                     THEN dpos + ProgramChunk ELSE Len(changed)
             data == SubSeq(changed, dpos + 1, last)
             wb == IF Len(data) < ProgramChunk THEN BindPrograms(w, dold)
                   ELSE w
             w0 == [wb EXCEPT !.out.progChanged = @ \o data]
             w1 == PysdSend(w0, "programs", data)
             w2 == PysdSend(w1, "metadata/description", data)
             data10 == [i \in DOMAIN data |-> Trunc10(data[i])]
             w3 == PysdSend(w2, "metadata/programs", data10)
         IN IF Refused(w0, failAt) THEN Outcome(w1, "ErrorResponse", <<>>)
            ELSE IF Refused(w1, failAt)
            THEN Outcome(w2, "ErrorResponse", <<>>)
            ELSE IF Refused(w2, failAt)
            THEN Outcome(w3, "ErrorResponse", <<>>)
            ELSE LET r == PysdMergeLoop(w3, ProgramsResponse(data), airings,
                                        MetadataResponse(data),
                                        ArtworkDict(ArtworkResponse(data10)))
                 IN IF r.exc # None THEN Outcome(r.w, r.exc, <<>>)
                    ELSE PysdBatchLoop(r.w, changed, last, dold, r.airings,
                                       failAt)

\* SDClient.get_programs() consumed to its end.
PysdRunPrograms(w, failAt) ==
    LET s == PysdRunSchedules(w, failAt) IN
    IF s.exc # None THEN Outcome(s.w, s.exc, <<>>)
    ELSE LET d == PysdDiffAll(s.w.disk.programs, s.w.program_ids.v,
                              1, <<>>)
         IN PysdBatchLoop(s.w, d.keys, 0, d.old,
                          PysdAirings(s.ys, EmptyMap), failAt)

\* Write the world an operation left back into the variable.
PysdCommit(w, exc, op) ==
    prun' = [prun EXCEPT !.station_ids = w.station_ids,
                         !.program_ids = w.program_ids,
                         !.mem = w.mem, !.disk = w.disk, !.reqs = w.reqs,
                         !.out = w.out, !.err = exc,
                         !.saveCalls = w.saveCalls, !.op = op,
                         !.calls = @ + 1]

\* for lineup in api.get_lineups(), as main() does.
PysdListLineups ==
    /\ prun.err = None
    /\ prun.calls < MaxCalls
    /\ \E failAt \in 0..Min({MaxFailAt, 3}) :
          LET r == PysdRunLineups(PysdWorld, failAt)
          IN PysdCommit(r.w, r.exc, "get_lineups")
    /\ UNCHANGED <<pysd, dvars, pvars, svars, mvars, cvars>>

\* for program in api.get_programs(), as main() does.
PysdListPrograms ==
    /\ prun.err = None
    /\ prun.calls < MaxCalls
    /\ \E failAt \in 0..MaxFailAt :
          LET r == PysdRunPrograms(PysdWorld, failAt)
          IN PysdCommit(r.w, r.exc, "get_programs")
    /\ UNCHANGED <<pysd, dvars, pvars, svars, mvars, cvars>>

\* The process ends and a later one starts over the same files: a new
\* SDClient, logged in, and a new PickleStore; the server may have changed
\* meanwhile.
PysdRestart ==
    /\ prun.op # "init"
    /\ prun.run < MaxRuns
    /\ srv' \in ServerStates
    /\ prun' = [FreshRun EXCEPT !.disk = prun.disk, !.disk0 = prun.disk,
                                !.run = prun.run + 1]
    /\ UNCHANGED <<token, station_ids, program_ids, mem, disk, gp, reqs,
                   saveCalls, err, held, heldSchedules, out, hist>>
    /\ UNCHANGED <<pysd, dvars, svars, mvars, cvars>>

\* The files a process of the pysd client may find at the store's path:
\* none, or those of a run against the server state with every md5 m1.
PysdInitialDisks ==
    { NoFiles,
      [lineups |-> ("L1" :> "m1") @@ ("L2" :> "m1"),
       schedules |-> [k \in Slots |-> "m1"],
       programs |-> [q \in Programs |-> "m1"]],
      [lineups |-> ("L1" :> "m1") @@ ("L2" :> "m1"),
       schedules |-> EmptyMap, programs |-> EmptyMap] }

\* ------------------------------------------------- a store on its own
\* Operations on the store.
MaxStoreOps == 3

\* Length of the (key, marker) lists handed to diff_*.
MaxStoreNew == 2

\* Mappings handed to save_*.
StoreMaps ==
    {EmptyMap, ("a" :> "1"), ("a" :> "2") @@ ("b" :> "1")}

StorePairs == {<<"a", "1">>, <<"b", "2">>}

StoreNews == UNION {[1..n -> StorePairs] : n \in 0..MaxStoreNew}

FileNames == {"lineups.sd", "schedules.sd", "programs.sd"}

NoFile == [exists |-> FALSE, bytes |-> <<>>]

\* A plausible slip: every category is written to and read from one file.
FileOfShared(cat) == "schedules.sd"

\* pathjoin(self.path, '<category>.sd')
FileOf(cat) ==
    CASE cat = "lineups" -> "lineups.sd"
      [] cat = "schedules" -> "schedules.sd"
      [] cat = "programs" -> "programs.sd"

\* pickle.dump(m, f): the items of the dict, one after the other.
RECURSIVE Pickle(_)
Pickle(m) ==
    IF DOMAIN m = {} THEN <<>>
    ELSE LET k == CHOOSE x \in DOMAIN m : TRUE
         IN << <<k, m[k]>> >> \o Pickle([j \in DOMAIN m \ {k} |-> m[j]])

\* pickle.load(f): the dict rebuilt from the items.
Unpickle(bytes) ==
    [k \in {bytes[i][1] : i \in DOMAIN bytes} |->
        bytes[CHOOSE i \in DOMAIN bytes : bytes[i][1] = k][2]]

\* save_lineups / save_schedules / save_programs: PickleStore writes the
\* file of the category, NullStore does nothing.
SaveCategory(k, f, cat, m) ==
    IF k = "null" THEN f
    ELSE [f EXCEPT ![FileOf(cat)] = [exists |-> TRUE, bytes |-> Pickle(m)]]

\* A plausible slip: a store that hands back the map it still has in memory.
LoadCategoryCached(k, f, sm, cat) ==
    IF cat \in sm.bound THEN sm[cat]
    ELSE IF k = "null" THEN EmptyMap
    ELSE IF ~f[FileOf(cat)].exists THEN EmptyMap
    ELSE Unpickle(f[FileOf(cat)].bytes)

\* load_lineups / load_schedules / load_programs: PickleStore returns {}
\* when the file does not exist and the unpickled file otherwise; NullStore
\* returns {}.  sm is the store object, which neither looks at.
LoadCategory(k, f, sm, cat) ==
    IF k = "null" THEN EmptyMap
    ELSE IF ~f[FileOf(cat)].exists THEN EmptyMap
    ELSE Unpickle(f[FileOf(cat)].bytes)

\* The runs that share a store object.
SyncRuns == {"A", "B"}

\* A run that has not begun.
NoRun ==
    [done |-> 0, open |-> FALSE, old |-> EmptyMap, todo |-> <<>>,
     saved |-> FALSE,
     base |-> [c \in Categories |-> EmptyMap],
     got |-> [c \in Categories |-> <<>>],
     wrote |-> [c \in Categories |-> EmptyMap]]

SyncIdle ==
    [run |-> [r \in SyncRuns |-> NoRun],
     binder |-> [c \in Categories |-> None],
     dirty |-> FALSE]

NoLast == [op |-> "init", cat |-> None, m |-> EmptyMap, new |-> <<>>,
           keys |-> <<>>, again |-> FALSE, exc |-> None]

InitStoreVars ==
    /\ kind \in {"pickle", "null"}
    /\ files = [n \in FileNames |-> NoFile]
    /\ smem = FreshStore
    /\ saved = [c \in Categories |-> [has |-> FALSE, m |-> EmptyMap]]
    /\ lastOp = NoLast
    /\ ops = 0
    /\ sync = SyncIdle

StoreIdle == InitStoreVars /\ kind = "pickle"

\* store.save_<cat>(m)
StoreSave ==
    /\ ops < MaxStoreOps
    /\ \E cat \in Categories, m \in StoreMaps :
          /\ files' = SaveCategory(kind, files, cat, m)
          /\ saved' = [saved EXCEPT ![cat] = [has |-> TRUE, m |-> m]]
          /\ lastOp' = [NoLast EXCEPT !.op = "save", !.cat = cat, !.m = m]
    /\ ops' = ops + 1
    /\ UNCHANGED <<kind, smem, sync>>
    /\ UNCHANGED <<dvars, pvars, lvars, mvars, cvars>>

\* store.load_<cat>()
StoreLoad ==
    /\ ops < MaxStoreOps
    /\ \E cat \in Categories :
          lastOp' = [NoLast EXCEPT !.op = "load", !.cat = cat,
                                 !.m = LoadCategory(kind, files, smem, cat)]
    /\ ops' = ops + 1
    /\ UNCHANGED <<kind, files, smem, saved, sync>>
    /\ UNCHANGED <<dvars, pvars, lvars, mvars, cvars>>

\* list(store.diff_<cat>(new)): old = self.load_<cat>(), the diff consumed
\* to its end, then self._<cat> = old.
StoreDiff ==
    /\ ops < MaxStoreOps
    /\ \E cat \in Categories, n \in StoreNews :
          LET o == LoadCategory(kind, files, smem, cat)
              d == DiffAll(o, n, 1, <<>>)
          IN /\ smem' = [smem EXCEPT !.bound = @ \cup {cat}, ![cat] = d.old]
             /\ lastOp' = [op |-> "diff", cat |-> cat, m |-> o, new |-> n,
                         keys |-> d.keys,
                         again |-> /\ cat \in smem.bound
                                   /\ {n[i][1] : i \in DOMAIN n}
                                         \subseteq DOMAIN smem[cat]
                                   /\ n # <<>>,
                         exc |-> None]
    /\ ops' = ops + 1
    /\ UNCHANGED <<kind, files, saved, sync>>
    /\ UNCHANGED <<dvars, pvars, lvars, mvars, cvars>>

\* The order in which save() goes through the categories.
SaveOrder == <<"lineups", "schedules", "programs">>

\* BaseStore.save(): save_lineups(self._lineups), save_schedules(
\* self._schedules), save_programs(self._programs), one after the other.
\* Reading an attribute no diff has bound raises AttributeError; the open()
\* of a PickleStore raises OSError for the category failCat, whose file
\* cannot be written (None: every file can).  What was written before the
\* exception stays written.  sv records the mapping handed to each save_*.
RECURSIVE SaveAll(_, _, _, _, _, _)
SaveAll(k, f, sm, sv, todo, failCat) ==
    IF todo = <<>> THEN [files |-> f, saved |-> sv, exc |-> None]
    ELSE LET cat == Head(todo) IN
         IF cat \notin sm.bound
         THEN [files |-> f, saved |-> sv, exc |-> "AttributeError"]
         ELSE IF k = "pickle" /\ cat = failCat
         THEN [files |-> f, saved |-> sv, exc |-> "OSError"]
         ELSE SaveAll(k, SaveCategory(k, f, cat, sm[cat]), sm,
                      [sv EXCEPT ![cat] = [has |-> TRUE, m |-> sm[cat]]],
                      Tail(todo), failCat)

\* store.save()
StoreSaveAll ==
    /\ ops < MaxStoreOps
    /\ \E failCat \in Categories \cup {None} :
          LET r == SaveAll(kind, files, smem, saved, SaveOrder, failCat)
          IN /\ files' = r.files
             /\ saved' = r.saved
             /\ lastOp' = [NoLast EXCEPT !.op = "save()", !.exc = r.exc]
    /\ ops' = ops + 1
    /\ UNCHANGED <<kind, smem, sync>>
    /\ UNCHANGED <<dvars, pvars, lvars, mvars, cvars>>

\* The order in which a sync run goes through the categories.
DiffOrder == <<"lineups", "schedules", "programs">>

\* The (key, marker) pairs run r hands to the diff of a category: each run
\* has found a marker of its own.
SyncNew(r, cat) ==
    IF r = "A" THEN << <<"a", "1">> >> ELSE << <<"b", "2">> >>

\* A plausible slip: the dict of the diff is merged into the map the store
\* object already has.
RebindMerged(sm, cat, o) ==
    [sm EXCEPT !.bound = @ \cup {cat}, ![cat] = o @@ sm[cat]]

\* self._<cat> = old, reached when the diff runs off its end.
Rebind(sm, cat, o) == [sm EXCEPT !.bound = @ \cup {cat}, ![cat] = o]

\* What the files of the store hold for each category.
Persisted(k, f, sm) == [c \in Categories |-> LoadCategory(k, f, sm, c)]

\* One next() of run r on the generator of its current diff_<cat>(new).
\* The first next() runs old = self.load_<cat>(); every next() pulls pairs
\* through the filter of _diff until one passes, writes its marker into old
\* and yields its key, or runs off the end of new, and then the store
\* object's map of the category is rebound to old.
SyncNext(r) ==
    LET me == sync.run[r] IN
    /\ me.done < Len(DiffOrder)
    /\ LET cat == DiffOrder[me.done + 1]
           o == IF me.open THEN me.old
                ELSE LoadCategory(kind, files, smem, cat)
           t == IF me.open THEN me.todo ELSE SyncNew(r, cat)
           base == IF me.open THEN me.base
                   ELSE [me.base EXCEPT ![cat] = o]
           hits == {j \in DOMAIN t : Changed(o, t[j])}
       IN IF hits = {}
          THEN /\ smem' = Rebind(smem, cat, o)
               /\ sync' = [sync EXCEPT
                     !.run[r] = [me EXCEPT !.done = @ + 1, !.open = FALSE,
                                           !.old = EmptyMap, !.todo = <<>>,
                                           !.base = base],
                     !.binder[cat] = r,
                     !.dirty = TRUE]
          ELSE LET j == Min(hits) IN
               /\ sync' = [sync EXCEPT
                     !.run[r] = [me EXCEPT
                        !.open = TRUE,
                        !.old = Bind(o, t[j][1], t[j][2]),
                        !.todo = SubSeq(t, j + 1, Len(t)),
                        !.base = base,
                        !.got[cat] = Append(@, t[j])]]
               /\ UNCHANGED smem
    /\ UNCHANGED <<kind, files, saved, lastOp, ops>>
    /\ UNCHANGED <<dvars, pvars, lvars, mvars, cvars>>

\* Run r, the diff of every category exhausted, calls self.store.save().
SyncSave(r) ==
    LET me == sync.run[r] IN
    /\ me.done = Len(DiffOrder)
    /\ ~me.saved
    /\ LET w == SaveAll(kind, files, smem, saved, SaveOrder, None)
       IN /\ files' = w.files
          /\ saved' = w.saved
          /\ sync' = [sync EXCEPT
                !.run[r] = [me EXCEPT !.saved = TRUE,
                                      !.wrote = Persisted(kind, w.files, smem)],
                !.dirty = FALSE]
    /\ UNCHANGED <<kind, smem, lastOp, ops>>
    /\ UNCHANGED <<dvars, pvars, lvars, mvars, cvars>>

\* The files two sharing runs may find: none, or those of an earlier run
\* that knew key "a" with an older marker.
SyncInitialFiles ==
    { [n \in FileNames |-> NoFile],
      [n \in FileNames |->
          [exists |-> TRUE, bytes |-> Pickle("a" :> "0")]] }

\* A later process: a new store object of the same kind at the same path.
StoreNew ==
    /\ ops < MaxStoreOps
    /\ smem # FreshStore
    /\ smem' = FreshStore
    /\ lastOp' = [NoLast EXCEPT !.op = "new"]
    /\ ops' = ops + 1
    /\ UNCHANGED <<kind, files, saved, sync>>
    /\ UNCHANGED <<dvars, pvars, lvars, mvars, cvars>>

\* ------------------------------------------------------------ the models
\* Field names and billing orders are strings, modelled as sequences of
\* one-character strings so that slicing and int() do what they do.
TitlePrefix == <<"t", "i", "t", "l", "e">>

DescriptionPrefix == <<"d", "e", "s", "c", "r", "i", "p", "t", "i", "o", "n">>

\* tn[5:] in titles
TitleCut == 5

\* tn[12:] in descriptions
DescriptionCut == 12

Digits == {"0", "1", "2", "3", "4", "5", "6", "7", "8", "9"}

DigitValue(c) ==
    CASE c = "0" -> 0 [] c = "1" -> 1 [] c = "2" -> 2 [] c = "3" -> 3
      [] c = "4" -> 4 [] c = "5" -> 5 [] c = "6" -> 6 [] c = "7" -> 7
      [] c = "8" -> 8 [] c = "9" -> 9

\* text[n:]
From(text, n) == SubSeq(text, n + 1, Len(text))

RECURSIVE IntAcc(_, _)
IntAcc(text, acc) ==
    IF text = <<>> THEN acc
    ELSE IntAcc(Tail(text), acc * 10 + DigitValue(Head(text)))

\* int(text): ValueError for '' and for anything but decimal digits.
IntOf(text) ==
    IF text = <<>> \/ \E i \in DOMAIN text : text[i] \notin Digits
    THEN [exc |-> "ValueError", v |-> 0]
    ELSE [exc |-> None, v |-> IntAcc(text, 0)]

\* self.data.get(key, default)
DataGet(data, key, default) ==
    IF key \in DOMAIN data THEN data[key] ELSE default

\* {int(tn[cut:]): tt for tn, tt in items}: the dict from rank to text; a
\* later item of the same rank replaces an earlier one.
RECURSIVE RankDict(_, _, _)
RankDict(items, cut, acc) ==
    IF items = <<>> THEN [exc |-> None, d |-> acc]
    ELSE LET r == IntOf(From(Head(items).name, cut)) IN
         IF r.exc # None THEN [exc |-> r.exc, d |-> acc]
         ELSE RankDict(Tail(items), cut, (r.v :> Head(items).text) @@ acc)

\* ProgramModel.titles: data['titles'] is a list of one-item dicts
\* {titleNNN: text}, here the list of their items.
Titles(data) == RankDict(DataGet(data, "titles", <<>>), TitleCut, EmptyMap)

\* ProgramModel.descriptions: data['descriptions'] is a dict
\* {descriptionNNN: [{'description': text}, ...]}, here its items in dict
\* order, each with the text of its first element.
Descriptions(data) ==
    RankDict(DataGet(data, "descriptions", <<>>), DescriptionCut, EmptyMap)

\* What reading a property gives: the exception raised (None: none),
\* whether the value is something other than None, and the value: a text
\* or a list of people.
NoValue == [exc |-> None, has |-> FALSE, text |-> "", people |-> <<>>]

\* if titles: return titles[min(titles.keys())]
Lowest(r) ==
    IF r.exc # None THEN [NoValue EXCEPT !.exc = r.exc]
    ELSE IF DOMAIN r.d = {} THEN NoValue
    ELSE [NoValue EXCEPT !.has = TRUE, !.text = r.d[Min(DOMAIN r.d)]]

\* if titles: return titles[max(titles.keys())]
Highest(r) ==
    IF r.exc # None THEN [NoValue EXCEPT !.exc = r.exc]
    ELSE IF DOMAIN r.d = {} THEN NoValue
    ELSE [NoValue EXCEPT !.has = TRUE, !.text = r.d[Max(DOMAIN r.d)]]

Title(data) == Lowest(Titles(data))

TitleLong(data) == Highest(Titles(data))

Subtitle(data) == TitleLong(data)

DescriptionShort(data) == Lowest(Descriptions(data))

Description(data) == Highest(Descriptions(data))

\* PersonModel(p): billing_order = data.get('billingOrder', 0) is the
\* string of the entry, or the integer 0.
PersonModel(p) ==
    [id |-> p.personId,
     billing_order |-> IF p.has THEN [str |-> TRUE, s |-> p.billingOrder, n |-> 0]
                       ELSE [str |-> FALSE, s |-> <<>>, n |-> 0]]

\* a < b on strings of digits
RECURSIVE StrLess(_, _)
StrLess(a, b) ==
    IF b = <<>> THEN FALSE
    ELSE IF a = <<>> THEN TRUE
    ELSE IF Head(a) = Head(b) THEN StrLess(Tail(a), Tail(b))
    ELSE DigitValue(Head(a)) < DigitValue(Head(b))

\* x < y on two billing orders of one type
KeyLess(x, y) == IF x.str THEN StrLess(x.s, y.s) ELSE x.n < y.n

\* sorted() is stable: p goes before the first element with a greater key.
Insert(sorted, p) ==
    LET later == {i \in DOMAIN sorted :
                     KeyLess(p.billing_order, sorted[i].billing_order)}
        at == IF later = {} THEN Len(sorted) + 1 ELSE Min(later)
    IN SubSeq(sorted, 1, at - 1) \o <<p>> \o SubSeq(sorted, at, Len(sorted))

RECURSIVE InsertAll(_, _)
InsertAll(people, acc) ==
    IF people = <<>> THEN acc
    ELSE InsertAll(Tail(people), Insert(acc, Head(people)))

\* sorted(people, key=lambda p: p.billing_order): comparing a string with
\* an integer raises TypeError.
Sorted(people) ==
    IF \E i, j \in DOMAIN people :
          people[i].billing_order.str # people[j].billing_order.str
    THEN [exc |-> "TypeError", v |-> <<>>]
    ELSE [exc |-> None, v |-> InsertAll(people, <<>>)]

\* _get_people(role): the list is read from the key 'role' of the data,
\* whatever the argument; handle_parse_error turns TypeError into
\* ParseError.
GetPeople(data, role) ==
    LET src == DataGet(data, "role", <<>>)
        s == Sorted([i \in DOMAIN src |-> PersonModel(src[i])])
    IN IF s.exc # None THEN [NoValue EXCEPT !.exc = "ParseError"]
       ELSE [NoValue EXCEPT !.has = TRUE, !.people = s.v]

Actors(data) == GetPeople(data, "cast")

Crew(data) == GetPeople(data, "crew")

\* Entries of data['titles'].
MaxTitleEntries == 2

\* Entries of a cast, crew or role list.
MaxPeople == 2

TitleNames == {TitlePrefix \o <<"4", "0">>, TitlePrefix \o <<"1", "2", "0">>}

TitleLists ==
    UNION {[1..n -> {[name |-> nm, text |-> t] :
                        nm \in TitleNames, t \in {"A", "B"}}] :
           n \in 0..MaxTitleEntries}

DescriptionShortItem ==
    [name |-> DescriptionPrefix \o <<"1", "0", "0">>, text |-> "short text"]

DescriptionLongItem ==
    [name |-> DescriptionPrefix \o <<"1", "0", "0", "0">>,
     text |-> "long text"]

\* The dicts with description100, description1000, both (in either order
\* of insertion), or neither.
DescriptionDicts ==
    {<<>>, <<DescriptionShortItem>>, <<DescriptionLongItem>>,
     <<DescriptionShortItem, DescriptionLongItem>>,
     <<DescriptionLongItem, DescriptionShortItem>>}

BillingChoices ==
    {[has |-> TRUE, billingOrder |-> <<"0", "1">>],
     [has |-> TRUE, billingOrder |-> <<"0", "2">>],
     [has |-> FALSE, billingOrder |-> <<>>]}

\* Lists of person entries; the personId of an entry is its position.
PeopleLists ==
    UNION {{[i \in 1..n |-> [personId |-> i, has |-> f[i].has,
                             billingOrder |-> f[i].billingOrder]] :
              f \in [1..n -> BillingChoices]} :
           n \in 0..MaxPeople}

\* The program dicts explored: with titles and descriptions, with cast and
\* crew, with a 'role' list, and the empty dict.
ProgramDatas ==
    {("titles" :> t) @@ ("descriptions" :> d) :
        t \in TitleLists, d \in DescriptionDicts}
    \cup {("cast" :> c) @@ ("crew" :> w) :
             c \in PeopleLists, w \in {x \in PeopleLists : Len(x) <= 1}}
    \cup {("role" :> r) : r \in PeopleLists}
    \cup {EmptyMap}

Properties ==
    {"title", "title_long", "subtitle", "description_short", "description",
     "actors", "cast", "crew"}

Property(data, attr) ==
    CASE attr = "title" -> Title(data)
      [] attr = "title_long" -> TitleLong(data)
      [] attr = "subtitle" -> Subtitle(data)
      [] attr = "description_short" -> DescriptionShort(data)
      [] attr = "description" -> Description(data)
      [] attr \in {"actors", "cast"} -> Actors(data)
      [] attr = "crew" -> Crew(data)

NoAccess == [attr |-> None, r |-> NoValue]

InitModelVars ==
    /\ pmodel \in ProgramDatas
    /\ access = NoAccess

ModelIdle == pmodel = EmptyMap /\ access = NoAccess

\* A property of the ProgramModel is read.
ReadProperty ==
    /\ \E attr \in Properties :
          access' = [attr |-> attr, r |-> Property(pmodel, attr)]
    /\ UNCHANGED pmodel
    /\ UNCHANGED <<dvars, pvars, lvars, svars, cvars>>

\* ------------------------------------------------------------ the caller
\* Write a world back into the variables.
Commit(w) ==
    /\ station_ids' = w.station_ids
    /\ program_ids' = w.program_ids
    /\ mem' = w.mem
    /\ disk' = w.disk
    /\ reqs' = w.reqs
    /\ saveCalls' = w.saveCalls
    /\ out' = w.out

\* api.status(): the login guard, then GET /status.
Status ==
    /\ Running
    /\ gp.pc = "none"
    /\ hist.calls < MaxCalls
    /\ \E failAt \in 0..1 :
          IF token = None
          THEN err' = "LoginRequired" /\ reqs' = <<>>
          ELSE /\ reqs' = Request(NewWorld, "status", None).reqs
               /\ err' = IF Refused(NewWorld, failAt) THEN "ErrorResponse"
                         ELSE None
    /\ out' = NoOut
    /\ hist' = [hist EXCEPT !.calls = @ + 1, !.op = "status"]
    /\ UNCHANGED <<token, station_ids, program_ids, mem, disk, srv, gp,
                   saveCalls, held, heldSchedules>>
    /\ UNCHANGED others

\* list(api.get_lineups()): the caller consumes the lineups and keeps them
\* (as __main__ does before get_programs(lineups=lineups)).
ListLineups ==
    /\ Running
    /\ gp.pc = "none"
    /\ hist.calls < MaxCalls
    /\ \E failAt \in 0..Min({MaxFailAt, 3}) :
          LET r == RunLineups(NewWorld, failAt)
          IN /\ Commit(r.w)
             /\ err' = r.exc
             /\ held' = IF r.exc = None THEN AttrList(r.ys) ELSE held
    /\ hist' = [hist EXCEPT !.calls = @ + 1, !.op = "get_lineups"]
    /\ UNCHANGED <<token, srv, gp, heldSchedules>>
    /\ UNCHANGED others

\* Channels arguments explored: absent, an empty list, a dict naming the
\* number of s1, lists naming the callsign of s2, the number of the first
\* map entry of s2, the number of s1 with the callsign of s2, and nothing
\* any station has.
ChannelArgs ==
    { NoChannels,
      [kind |-> "list", pairs |-> <<>>],
      [kind |-> "dict", pairs |-> << <<"002", "KZZZ">> >>],
      [kind |-> "list", pairs |-> << <<"009", "KBBB">> >>],
      [kind |-> "list", pairs |-> << <<"005", "KZZZ">> >>],
      [kind |-> "list", pairs |-> << <<"002", "KZZZ">>, <<"009", "KBBB">> >>],
      [kind |-> "dict", pairs |-> << <<"009", "KZZZ">> >>] }

\* lineups = list(api.get_lineups(channels=channels))
ListLineupsFor ==
    /\ Running
    /\ gp.pc = "none"
    /\ hist.calls < MaxCalls
    /\ \E channels \in ChannelArgs, failAt \in 0..Min({MaxFailAt, 3}) :
          LET r == RunLineups([NewWorld EXCEPT !.channels = channels],
                              failAt)
          IN /\ Commit(r.w)
             /\ err' = r.exc
             /\ held' = IF r.exc = None THEN AttrList(r.ys) ELSE held
             /\ hist' = [hist EXCEPT !.calls = @ + 1, !.op = "get_lineups",
                                     !.channels = channels]
    /\ UNCHANGED <<token, srv, gp, heldSchedules>>
    /\ UNCHANGED others

\* list(api.get_schedules()): the caller consumes the schedules.
ListSchedules ==
    /\ Running
    /\ gp.pc = "none"
    /\ hist.calls < MaxCalls
    /\ \E failAt \in 0..Min({MaxFailAt, 7}) :
          LET r == RunSchedules(NewWorld, failAt)
          IN /\ Commit(r.w)
             /\ err' = r.exc
    /\ hist' = [hist EXCEPT !.calls = @ + 1, !.op = "get_schedules"]
    /\ UNCHANGED <<token, srv, gp, held, heldSchedules>>
    /\ UNCHANGED others

\* The caller takes n lineups from api.get_lineups() with next() and drops
\* the generator.
TakeLineups ==
    /\ Running
    /\ gp.pc = "none"
    /\ hist.calls < MaxCalls
    /\ \E n \in 1..Min({MaxTake, Len(StatusLineups)}),
          failAt \in 0..Min({MaxFailAt, 3}) :
          LET r == AdvanceLineups(NewWorld, n, failAt)
          IN /\ Commit(r.w)
             /\ err' = r.exc
             /\ hist' = [hist EXCEPT !.calls = @ + 1,
                                     !.op = IF r.suspended
                                            THEN "take_lineups"
                                            ELSE "get_lineups"]
    /\ UNCHANGED <<token, srv, gp, held, heldSchedules>>
    /\ UNCHANGED others

\* The caller takes n schedules from api.get_schedules() with next(), keeps
\* them and drops the generator.
TakeSchedules ==
    /\ Running
    /\ gp.pc = "none"
    /\ hist.calls < MaxCalls
    /\ \E n \in 1..MaxTake, failAt \in 0..Min({MaxFailAt, 7}) :
          LET r == AdvanceSchedules(NewWorld, n, failAt)
          IN /\ Commit(r.w)
             /\ err' = r.exc
             /\ heldSchedules' = IF r.exc = None THEN AttrList(r.ys)
                                 ELSE heldSchedules
             /\ hist' = [hist EXCEPT !.calls = @ + 1,
                                     !.op = IF r.suspended
                                            THEN "take_schedules"
                                            ELSE "get_schedules",
                                     !.fullPids =
                                        IF r.exc = None /\ ~r.suspended
                                        THEN AttrList(PairsIn(r.ys)) ELSE @]
    /\ UNCHANGED <<token, srv, gp, held>>
    /\ UNCHANGED others

\* schedules = list(api.get_schedules()): the caller consumes the schedules
\* and keeps them.
KeepSchedules ==
    /\ Running
    /\ gp.pc = "none"
    /\ hist.calls < MaxCalls
    /\ \E failAt \in 0..Min({MaxFailAt, 7}) :
          LET r == RunSchedules(NewWorld, failAt)
          IN /\ Commit(r.w)
             /\ err' = r.exc
             /\ heldSchedules' = IF r.exc = None THEN AttrList(r.ys)
                                 ELSE heldSchedules
             /\ hist' = [hist EXCEPT !.calls = @ + 1,
                                     !.op = "get_schedules",
                                     !.fullPids =
                                        IF r.exc = None
                                        THEN AttrList(PairsIn(r.ys)) ELSE @]
    /\ UNCHANGED <<token, srv, gp, held>>
    /\ UNCHANGED others

\* api.get_programs(lineups=lineups, schedules=schedules[:n]): the caller
\* passes the lineups it keeps and the schedules it keeps, or the first n
\* of them.
CallGetProgramsGiven ==
    /\ Running
    /\ gp.pc = "none"
    /\ token # None
    /\ held.st = "list"
    /\ heldSchedules.st = "list"
    /\ \E n \in 0..Len(heldSchedules.v) :
          gp' = [GenFrame EXCEPT
                   !.lineups = held,
                   !.schedules = AttrList(SubSeq(heldSchedules.v, 1, n))]
    /\ err' = None
    /\ reqs' = <<>>
    /\ out' = NoOut
    /\ hist' = [hist EXCEPT !.op = "get_programs"]
    /\ UNCHANGED <<token, station_ids, program_ids, mem, disk, srv,
                   saveCalls, held, heldSchedules>>
    /\ UNCHANGED others

\* api.get_programs(schedules=schedules), with or without lineups=lineups:
\* the schedules are the ones the caller took before.
CallGetProgramsWith ==
    /\ Running
    /\ gp.pc = "none"
    /\ heldSchedules.st = "list"
    /\ \E arg \in {AttrNone, held} :
          IF token = None
          THEN err' = "LoginRequired" /\ gp' = gp
          ELSE err' = None
               /\ gp' = [GenFrame EXCEPT !.lineups = arg,
                                         !.schedules = heldSchedules]
    /\ reqs' = <<>>
    /\ out' = NoOut
    /\ hist' = [hist EXCEPT !.op = "get_programs"]
    /\ UNCHANGED <<token, station_ids, program_ids, mem, disk, srv,
                   saveCalls, held, heldSchedules>>
    /\ UNCHANGED others

\* A plausible slip: the token is checked inside the generator, so the call
\* succeeds and LoginRequired comes with the first next().
CallGetProgramsLazy ==
    /\ Running
    /\ gp.pc = "none"
    /\ \E arg \in {AttrNone, held} :
          err' = None /\ gp' = [GenFrame EXCEPT !.lineups = arg]
    /\ reqs' = <<>>
    /\ out' = NoOut
    /\ hist' = [hist EXCEPT !.op = "get_programs"]
    /\ UNCHANGED <<token, station_ids, program_ids, mem, disk, srv,
                   saveCalls, held, heldSchedules>>
    /\ UNCHANGED others

\* api.get_programs() or api.get_programs(lineups=lineups): the
\* login_required wrapper checks the token at the call; the body does not
\* run before the first next().
CallGetPrograms ==
    /\ Running
    /\ gp.pc = "none"
    /\ \E arg \in {AttrNone, held} :
          IF token = None
          THEN err' = "LoginRequired" /\ gp' = gp
          ELSE err' = None /\ gp' = [GenFrame EXCEPT !.lineups = arg]
    /\ reqs' = <<>>
    /\ out' = NoOut
    /\ hist' = [hist EXCEPT !.op = "get_programs"]
    /\ UNCHANGED <<token, station_ids, program_ids, mem, disk, srv,
                   saveCalls, held, heldSchedules>>
    /\ UNCHANGED others

\* next() on the generator of get_programs().
NextProgram ==
    /\ gp.pc \in {"start", "batch"}
    /\ \E failAt \in 0..(IF gp.pc = "start" THEN MaxFailAt
                          ELSE Min({MaxFailAt, 3})) :
          LET r == IF gp.pc = "start" THEN StartStep(World, gp, failAt)
                   ELSE BatchStep(World, gp, failAt)
          IN /\ Commit(r.w)
             /\ gp' = r.f
             /\ err' = r.exc
    /\ hist' = [hist EXCEPT !.op = "next"]
    /\ UNCHANGED <<token, srv, held, heldSchedules>>
    /\ UNCHANGED others

\* A plausible slip: the epilogue of get_programs sits in a finally block,
\* so closing the generator saves.
AbandonSaves ==
    /\ gp.pc \in {"start", "batch"}
    /\ gp' = [gp EXCEPT !.pc = "closed"]
    /\ Commit(Save(World).w)
    /\ hist' = [hist EXCEPT !.op = "close"]
    /\ UNCHANGED <<token, srv, err, held, heldSchedules>>
    /\ UNCHANGED others

\* The caller drops the generator before it is exhausted: nothing of the
\* body runs any more (it has no try/finally).
Abandon ==
    /\ gp.pc \in {"start", "batch"}
    /\ gp' = [gp EXCEPT !.pc = "closed"]
    /\ hist' = [hist EXCEPT !.op = "close"]
    /\ UNCHANGED <<token, station_ids, program_ids, mem, disk, srv, reqs,
                   saveCalls, err, held, heldSchedules, out>>
    /\ UNCHANGED others

\* The caller handles the exception of its last operation, or is done with
\* the generator of get_programs(), and goes on using the same client and
\* store objects (as the tests do after assertRaises).  What the next pass
\* requests and produces is recorded from scratch.
Handle ==
    /\ err # None \/ gp.pc \in {"done", "raised", "closed"}
    /\ hist.calls < MaxCalls
    /\ err' = None
    /\ gp' = NoGen
    /\ saveCalls' = 0
    /\ out' = NoOut
    /\ reqs' = <<>>
    /\ hist' = [hist EXCEPT !.calls = @ + 1, !.op = "handle"]
    /\ UNCHANGED <<token, station_ids, program_ids, mem, disk, srv, held,
                   heldSchedules>>
    /\ UNCHANGED others

\* The generator of get_programs() ran to the end of its body (to save()).
RanToEnd == gp.pc \in {"done", "raised"} /\ saveCalls > 0

\* get_programs() treated every lineup (of its argument, or fetched by
\* itself), every schedule and every program as changed.
AllChanged ==
    /\ Range(out.lineups) \cup Range(gp.lineups.v) = Range(StatusLineups)
    /\ Range(out.schedChanged) = Slots
    /\ Range(out.progChanged) = Programs

\* The process ends, on an exception or when it is through with its
\* get_programs(), and a later one starts over the same files: a new
\* SDGrabber and a new PickleStore; the server may have changed meanwhile.
\* The history keeps whether the run that ended was a complete first run
\* (no files before it, get_programs consumed to its end) that the new run
\* repeats against the same server answers, and whether it treated
\* everything as changed.
Restart ==
    /\ err # None \/ gp.pc \in {"done", "raised", "closed"}
    /\ hist.run < MaxRuns
    /\ \E s \in ServerStates :
          LET repeat == s = srv /\ hist.disk0 = NoFiles /\ RanToEnd IN
          /\ srv' = s
          /\ hist' = [run |-> hist.run + 1, calls |-> 0, op |-> "init",
                      body |-> NoBody, disk0 |-> disk,
                      sameSrv |-> repeat,
                      prevFresh |-> repeat,
                      prevEnded |-> repeat,
                      prevAll |-> repeat /\ AllChanged,
                      fullPids |-> AttrNone, channels |-> NoChannels]
    /\ token' = None
    /\ station_ids' = AttrNone
    /\ program_ids' = AttrNone
    /\ mem' = FreshStore
    /\ gp' = NoGen
    /\ reqs' = <<>>
    /\ saveCalls' = 0
    /\ err' = None
    /\ held' = AttrNone
    /\ heldSchedules' = AttrNone
    /\ out' = NoOut
    /\ UNCHANGED disk
    /\ UNCHANGED others

Init ==
    InitClient /\ DiffIdle /\ InitPysd /\ StoreIdle /\ ModelIdle /\ ChunkerIdle

Next ==
    \/ Login
    \/ Status
    \/ ListLineups
    \/ ListSchedules
    \/ CallGetPrograms
    \/ NextProgram
    \/ Abandon
    \/ Handle
    \/ Restart

Spec == Init /\ [][Next]_vars

InitDiff ==
    /\ InitDiffVars /\ ClientIdle /\ InitPysd /\ StoreIdle /\ ModelIdle
    /\ ChunkerIdle

NextDiff == (DiffNext \/ DiffAgain) /\ UNCHANGED <<pvars, lvars, svars, mvars, cvars>>

SpecDiff == InitDiff /\ [][NextDiff]_vars

InitLogin ==
    /\ InitPysd /\ ClientIdle /\ DiffIdle /\ StoreIdle /\ ModelIdle
    /\ ChunkerIdle

NextLogin == PysdLogin \/ PysdRequest

SpecLogin == InitLogin /\ [][NextLogin]_vars

InitStore ==
    /\ InitStoreVars /\ ClientIdle /\ DiffIdle /\ InitPysd /\ ModelIdle
    /\ ChunkerIdle

NextStore ==
    StoreSave \/ StoreLoad \/ StoreDiff \/ StoreSaveAll \/ StoreNew

SpecStore == InitStore /\ [][NextStore]_vars

NextPysdDiff == PysdDiffNext /\ UNCHANGED <<pvars, lvars, svars, mvars, cvars>>

SpecPysdDiff == InitDiff /\ [][NextPysdDiff]_vars

InitModel ==
    /\ InitModelVars /\ ClientIdle /\ DiffIdle /\ InitPysd /\ StoreIdle
    /\ ChunkerIdle

NextModel == ReadProperty

SpecModel == InitModel /\ [][NextModel]_vars

\* get_programs() on a client that has logged in, against a server whose
\* answers to a batch may have gaps.
InitPrograms ==
    /\ token = "t1"
    /\ station_ids = AttrNone
    /\ program_ids = AttrNone
    /\ mem = FreshStore
    /\ disk \in InitialDisks
    /\ srv \in GapServerStates
    /\ gp = NoGen
    /\ reqs = << <<"token", None, None>> >>
    /\ saveCalls = 0
    /\ err = None
    /\ held = AttrNone
    /\ heldSchedules = AttrNone
    /\ out = NoOut
    /\ hist = [run |-> 1, calls |-> 0, op |-> "login",
               body |-> [code |-> 0, response |-> None, token |-> "t1"],
               disk0 |-> disk,
               sameSrv |-> FALSE, prevFresh |-> FALSE, prevEnded |-> FALSE,
               prevAll |-> FALSE, fullPids |-> AttrNone,
               channels |-> NoChannels]
    /\ DiffIdle /\ InitPysd /\ StoreIdle /\ ModelIdle /\ ChunkerIdle

NextPrograms == CallGetPrograms \/ NextProgram \/ Abandon

\* The phases called one by one on a client that has logged in, their
\* generators consumed to the end or only in part.
InitPartial ==
    /\ InitPrograms
    /\ srv.gaps = "none"

NextPartial ==
    \/ ListLineups
    \/ TakeLineups
    \/ ListSchedules
    \/ TakeSchedules
    \/ CallGetPrograms
    \/ CallGetProgramsWith
    \/ NextProgram
    \/ Abandon
    \/ Handle

SpecPartial == InitPartial /\ [][NextPartial]_vars

\* A caller that materializes lineups and schedules and hands them to
\* get_programs().
NextGiven ==
    \/ ListLineups
    \/ KeepSchedules
    \/ TakeSchedules
    \/ CallGetProgramsGiven
    \/ NextProgram
    \/ Abandon
    \/ Handle

SpecGiven == InitPartial /\ [][NextGiven]_vars

\* A caller that restricts get_lineups() to some channels and then gets
\* the schedules.
NextChannels ==
    \/ ListLineupsFor
    \/ ListSchedules
    \/ Handle

SpecChannels == InitPartial /\ [][NextChannels]_vars

\* An SDClient that has logged in, with a PickleStore.
InitPysdRun ==
    /\ pysd = [token |-> "t1", err |-> None,
               reqs |-> << <<"token", None>> >>,
               body |-> [code |-> 0, response |-> None, token |-> "t1"]]
    /\ \E d \in PysdInitialDisks :
          prun = [FreshRun EXCEPT !.disk = d, !.disk0 = d]
    /\ InitClient
    /\ disk = NoFiles
    /\ DiffIdle /\ StoreIdle /\ ModelIdle /\ ChunkerIdle

NextPysdRun == PysdListLineups \/ PysdListPrograms \/ PysdRestart

SpecPysdRun == InitPysdRun /\ [][NextPysdRun]_vars

\* A chunker on its own.
InitChunkerOnly ==
    /\ InitChunker
    /\ ClientIdle /\ DiffIdle /\ InitPysd /\ StoreIdle /\ ModelIdle

NextChunker == ChunkerNext \/ ChunkerStop

SpecChunker == InitChunkerOnly /\ [][NextChunker]_vars

\* Two sync runs over one PickleStore object, their steps interleaved in
\* any order.
InitSync ==
    /\ kind = "pickle"
    /\ files \in SyncInitialFiles
    /\ smem = FreshStore
    /\ saved = [c \in Categories |-> [has |-> FALSE, m |-> EmptyMap]]
    /\ lastOp = NoLast
    /\ ops = 0
    /\ sync = SyncIdle
    /\ ClientIdle /\ DiffIdle /\ InitPysd /\ ModelIdle /\ ChunkerIdle

NextSync == \E r \in SyncRuns : SyncNext(r) \/ SyncSave(r)

SpecSync == InitSync /\ [][NextSync]_vars

SpecPrograms == InitPrograms /\ [][NextPrograms]_vars

\* ------------------------------------------------------- claims on _diff
Examined == 1..(pos - 1)

SameKeyBefore(i) == {j \in 1..(i - 1) : new[j][1] = new[i][1]}

SameKeyAfter(i) == {j \in (i + 1)..Len(new) : new[j][1] = new[i][1]}

\* What old holds for the key of pair i when the scan reaches it: the marker
\* of the nearest earlier pair of that key, else what old held at the start.
PriorMarker(i) ==
    IF SameKeyBefore(i) = {} THEN Get(old0, new[i][1])
    ELSE new[Max(SameKeyBefore(i))][2]

\* No key occurs in new with two different markers.
OneMarkerPerKey ==
    \A i, j \in 1..Len(new) : new[i][1] = new[j][1] => new[i][2] = new[j][2]

\* C1: the key of a pair is yielded exactly when, at the moment the pair is
\* examined, old has no entry for the key or holds a different marker; keys
\* come out in the order of their pairs; the worked example yields c then d.
C1_DiffYieldsExactlyChanged ==
    /\ Len(seenAs) = pos - 1
    /\ \A i \in Examined : seenAs[i] = PriorMarker(i)
    /\ \A i \in Examined : (i \in Range(outIdx)) <=> (seenAs[i] # new[i][2])
    /\ \A a, b \in DOMAIN outIdx : a < b => outIdx[a] < outIdx[b]
    /\ Range(outIdx) \subseteq Examined
    /\ yielded = [a \in 1..Len(outIdx) |-> new[outIdx[a]][1]]
    /\ (old0 = ExampleOld /\ new = ExampleNew /\ pass = 1 /\ done)
          => yielded = <<"c", "d">>

C1_Witness ==
    /\ pass = 1 /\ done
    /\ old0 = ExampleOld /\ new = ExampleNew
    /\ yielded = <<"c", "d">>

\* C2 as stated: once the diff is consumed, old[key] = marker for every pair
\* of new, duplicate keys allowed.
C2_EveryPairStored ==
    done => \A i \in 1..Len(new) : Get(old, new[i][1]) = new[i][2]

\* C2: once the diff is consumed, old[key] = marker for every pair of new
\* that is the last pair of its key (so for every pair when no key occurs
\* with two different markers).
C2_LastPairStored ==
    done => \A i \in 1..Len(new) :
               (\A j \in SameKeyAfter(i) : new[j][2] = new[i][2])
                  => Get(old, new[i][1]) = new[i][2]

C2_Witness ==
    /\ pass = 1 /\ done
    /\ ~OneMarkerPerKey
    /\ \E i \in 1..Len(new) :
          /\ SameKeyAfter(i) = {}
          /\ Get(old0, new[i][1]) # new[i][2]
          /\ old[new[i][1]] = new[i][2]

\* C3 as stated: a second diff with the same new yields nothing and leaves
\* old unchanged, for every new.
C3_SecondPassSilent ==
    pass = 2 => yielded = <<>> /\ old = old0

\* C3: a second diff with the same new yields nothing and leaves old
\* unchanged, provided no key occurs in new with two different markers.
C3_SecondPassSilentOneMarker ==
    (pass = 2 /\ OneMarkerPerKey) => yielded = <<>> /\ old = old0

C3_Witness ==
    /\ pass = 2 /\ done
    /\ OneMarkerPerKey
    /\ Len(yielded1) >= 2
    /\ yielded = <<>>

\* C4: a key of old without a pair in new is never yielded and keeps its
\* marker; a pair whose marker equals old[key] when examined is not yielded
\* and leaves old[key] alone; a key that was never yielded keeps the marker
\* it had; the key set of old only grows.
C4_DiffFrame ==
    /\ DOMAIN old0 \subseteq DOMAIN old
    /\ \A k \in DOMAIN old0 :
          (\A i \in 1..Len(new) : new[i][1] # k)
             => k \notin Range(yielded) /\ old[k] = old0[k]
    /\ \A k \in DOMAIN old :
          k \notin Range(yielded) => k \in DOMAIN old0 /\ old[k] = old0[k]
    /\ \A i \in Examined :
          seenAs[i] = new[i][2]
             => /\ i \notin Range(outIdx)
                /\ (SameKeyAfter(i) \cap Examined = {}
                      => old[new[i][1]] = new[i][2])

C4_Witness ==
    /\ done
    /\ yielded # <<>>
    /\ \E k \in DOMAIN old0 :
          /\ \A i \in 1..Len(new) : new[i][1] # k
          /\ old[k] = old0[k]
    /\ \E i \in Examined : seenAs[i] = new[i][2] /\ i \notin Range(outIdx)

\* C5 as stated: when the same (key, marker) pair occurs several times in
\* new, at most one of its occurrences is yielded, and only the first can be.
C5_RepeatedPairYieldedOnce ==
    \A i, j \in Examined :
        (i < j /\ new[i] = new[j]) => j \notin Range(outIdx)

\* C5: when the same (key, marker) pair occurs several times in new and no
\* pair of that key with another marker lies between two occurrences, the
\* later occurrence is not yielded (it carries the marker just written) and
\* the earlier one is yielded only if it differed from the stored marker.
C5_RepeatedPairYieldedOnceAdjacent ==
    \A i, j \in Examined :
        ( /\ i < j
          /\ new[i] = new[j]
          /\ \A l \in (i + 1)..(j - 1) :
                new[l][1] = new[i][1] => new[l][2] = new[i][2] )
        => /\ j \notin Range(outIdx)
           /\ seenAs[j] = new[j][2]
           /\ (i \in Range(outIdx) => seenAs[i] # new[i][2])

C5_Witness ==
    /\ done
    /\ \E i, j \in Examined :
          /\ i < j
          /\ new[i] = new[j]
          /\ \A l \in (i + 1)..(j - 1) : new[l][1] # new[i][1]
          /\ i \in Range(outIdx)
          /\ j \notin Range(outIdx)

\* --------------------------------------------------- claims on the client
\* dict.update(pairs) on a copy: m overwritten with the markers of obs.
Overwritten(m, obs) ==
    [k \in DOMAIN m \cup DOMAIN obs |-> IF k \in DOMAIN obs THEN obs[k] ELSE m[k]]

\* C6: store.save() is invoked exactly once in a run, after the last
\* Program record of the last batch was yielded and the station-id and
\* program-id state was cleared; never by get_lineups or get_schedules on
\* their own, never between batches.
C6_SaveOnceAtEnd ==
    /\ saveCalls <= 1
    /\ saveCalls = 1 => station_ids.st = "deleted"
    /\ saveCalls = 1 => program_ids.st = "deleted"
    /\ gp.pc \in {"none", "start", "batch", "closed"} => saveCalls = 0
    /\ gp.pc = "done" => saveCalls = 1
    /\ saveCalls = 1 =>
          /\ gp.pc \in {"done", "raised"}
          /\ gp.pending = <<>>
          /\ gp.dpos = Len(gp.changed)
          /\ out.progChanged = gp.changed
          /\ [i \in DOMAIN out.programs |-> out.programs[i].programID]
                = gp.changed

C6_Witness ==
    /\ saveCalls = 1
    /\ hist.calls = 2
    /\ Len(out.programs) = 3
    /\ Len(SelectSeq(reqs, LAMBDA r : r[1] = "programs")) = 2

\* C7 as stated: after a run that consumed get_programs() to its end, every
\* category's in-memory map was bound by a diff of the run and the persisted
\* state of each category is the state loaded at the start overwritten with
\* every (key, marker) the run observed.
C7_SavedStateReflectsRun ==
    RanToEnd =>
       /\ mem.bound = Categories
       /\ disk.lineups =
             Overwritten(hist.disk0.lineups,
                [n \in Range(StatusLineups) |-> "m1"])
       /\ disk.schedules =
             Overwritten(hist.disk0.schedules,
                [k \in Slots |-> srv.smd5[k]])
       /\ disk.programs =
             Overwritten(hist.disk0.programs,
                [q \in UNION {Range(SlotPrograms(k)) :
                                  k \in Range(out.schedules)} |-> srv.pmd5[q]])

\* C8: when the sequence of get_programs is dropped before its end, or a
\* request of any phase raises ErrorResponse (which reaches the caller),
\* save is not invoked and every persisted blob is as it was before the run.
C8_NoSaveOnAbandonOrFailure ==
    (gp.pc = "closed" \/ err = "ErrorResponse") =>
       /\ saveCalls = 0
       /\ disk = hist.disk0
       /\ (err = "ErrorResponse" => gp.pc \in {"none", "raised"})

C8_Witness ==
    /\ gp.pc = "closed"
    /\ Len(out.programs) = 3
    /\ mem.bound = {"schedules", "programs"}
    /\ saveCalls = 0

\* C9 as stated: starting from an empty persisted store, a first complete
\* run treats everything as changed, and a second complete run against
\* identical server responses yields no changed lineup, schedule or program
\* and no Lineup or Program record.
C9_SecondRunSilent ==
    (hist.run >= 2 /\ hist.prevFresh /\ hist.prevEnded /\ hist.sameSrv
       /\ RanToEnd)
    => /\ hist.prevAll
       /\ out.lineups = <<>>
       /\ out.schedChanged = <<>>
       /\ out.progChanged = <<>>
       /\ out.programs = <<>>

\* C10 as stated: a (station, day) the schedule diff yielded as changed and
\* whose /schedules entry was an error envelope gave no ScheduleModel, and
\* once the run is over it is absent from the persisted schedule state.
C10_ErrorSlotEvicted ==
    \A slot \in Range(out.errEntries) :
        /\ slot \in Range(out.schedChanged)
        /\ slot \notin Range(out.schedules)
        /\ RanToEnd => slot \notin DOMAIN disk.schedules

\* ------------------------------------------ claims on errors and login
\* The (programID, md5) pairs of the entries /schedules answers for slots.
PairsOf(slots) ==
    {<<q, srv.pmd5[q]>> : q \in UNION {Range(SlotPrograms(k)) : k \in slots}}

C12_LoginRequiredAtCall ==
    token = None =>
       /\ \A i \in DOMAIN reqs : reqs[i][1] = "token"
       /\ station_ids = AttrNone
       /\ program_ids = AttrNone
       /\ mem = FreshStore
       /\ disk = hist.disk0
       /\ saveCalls = 0
       /\ out = NoOut
       /\ gp.pc = "none"
       /\ hist.op \in {"status", "get_lineups", "get_schedules",
                       "get_programs"} => err = "LoginRequired"

C12_Witness ==
    /\ token = None
    /\ hist.op = "get_programs"
    /\ err = "LoginRequired"
    /\ reqs = <<>>

\* C13: login() answered with an error envelope (a body with a 'response'
\* field, such as code 3000 SERVICES_OFFLINE) raises ErrorResponse and the
\* token stays None.
C13_LoginEnvelopeRaises ==
    (hist.op = "login" /\ HasResponse(hist.body))
    => (err = "ErrorResponse" /\ token = None)

C13_Witness ==
    /\ hist.op = "login"
    /\ hist.body.code = 3000
    /\ hist.body.response = "SERVICES_OFFLINE"
    /\ err = "ErrorResponse"
    /\ token = None

\* The last operation of the SDClient was login().
PysdLoggedIn ==
    /\ pysd.reqs # <<>>
    /\ pysd.reqs[Len(pysd.reqs)][1] = "token"

\* C14 as stated: when /token answers with a nonzero code, SDClient.login()
\* raises ServiceOffline.
C14_ServiceOfflineOnNonzeroCode ==
    (PysdLoggedIn /\ pysd.body.code # 0) => pysd.err = "ServiceOffline"

\* C15: login() answered with code 0 and a token sets the client's token to
\* that token; the token is never anything but the one last returned; with
\* it the login guard of status(), get_lineups(), get_schedules() and
\* get_programs() passes, and every request other than /token carries it.
C15_TokenSetAndCarried ==
    /\ (hist.op = "login" /\ hist.body.code = 0 /\ hist.body.token # None)
       => (token = hist.body.token /\ err = None)
    /\ token # None =>
          /\ token = hist.body.token
          /\ err # "LoginRequired"
    /\ \A i \in DOMAIN reqs :
          reqs[i][1] # "token" => (token # None /\ reqs[i][3] = token)

C15_Witness ==
    /\ token = "t2"
    /\ hist.body.token = "t2"
    /\ gp.pc = "batch"
    /\ \E i \in DOMAIN reqs : reqs[i][1] = "programs" /\ reqs[i][3] = "t2"
    /\ \E i \in DOMAIN reqs : reqs[i][1] = "status" /\ reqs[i][3] = "t2"

\* ---------------------------------------------------- claims on stores
\* C16: with a PickleStore, load_X() returns the mapping last passed to
\* save_X, whatever was saved for the other two categories meanwhile, and
\* the empty mapping when nothing was ever saved for X.
C16_PickleRoundTrip ==
    (kind = "pickle" /\ lastOp.op = "load")
    => lastOp.m = IF saved[lastOp.cat].has THEN saved[lastOp.cat].m
                  ELSE EmptyMap

C16_Witness ==
    /\ kind = "pickle"
    /\ lastOp.op = "load"
    /\ lastOp.cat = "lineups"
    /\ lastOp.m = ("a" :> "2") @@ ("b" :> "1")
    /\ saved["schedules"].has
    /\ saved["schedules"].m = ("a" :> "1")
    /\ ~saved["programs"].has

\* C17: with a NullStore every diff starts from the empty mapping and so
\* yields every key of its input, whatever was diffed or saved before, in
\* this process or an earlier one; nothing is ever written and every load
\* returns the empty mapping.
C17_NullStoreForgets ==
    kind = "null" =>
       /\ \A n \in FileNames : files[n] = NoFile
       /\ lastOp.op = "load" => lastOp.m = EmptyMap
       /\ lastOp.op = "diff" =>
             /\ lastOp.m = EmptyMap
             /\ Range(lastOp.keys) =
                   {lastOp.new[i][1] : i \in DOMAIN lastOp.new}

C17_Witness ==
    /\ kind = "null"
    /\ lastOp.op = "diff"
    /\ lastOp.again
    /\ saved[lastOp.cat].has
    /\ Range(lastOp.keys) = {"a", "b"}

\* ------------------------------------------------- claims on the phases
\* The 'modified' marker the status response gives for a lineup name.
LineupModified(name) ==
    LET i == CHOOSE j \in DOMAIN StatusResponse.lineups :
                 StatusResponse.lineups[j].lineup = name
    IN StatusResponse.lineups[i].modified

\* C18 as stated: get_lineups requests /lineups/<name>, and yields a Lineup,
\* only for names whose marker in the status response is absent from or
\* different in the stored lineup state.
C18_OnlyChangedLineupsFetched ==
    /\ \A i \in DOMAIN reqs :
          reqs[i][1] = "lineups"
          => Get(hist.disk0.lineups, reqs[i][2]) # LineupModified(reqs[i][2])
    /\ \A i \in DOMAIN out.lineups :
          Get(hist.disk0.lineups, out.lineups[i])
             # LineupModified(out.lineups[i])

\* C19 as stated: on a logged-in client a later phase runs the phases
\* before it when they were skipped, and no call fails because private
\* phase state is missing: get_schedules() leaves the station ids
\* populated, get_programs() the station ids and the program ids, also
\* after an earlier get_programs() reached its end.
C19_LaterPhaseAutoTriggers ==
    /\ err # "AttributeError(_station_ids)"
    /\ (hist.op = "get_schedules" /\ err = None)
       => (station_ids.st = "list" /\ program_ids.st = "list")
    /\ gp.pc = "batch"
       => (station_ids.st = "list" /\ program_ids.st = "list")

\* C20: every /schedules/md5 request carries at most StationChunk station
\* ids and every /schedules request at most StationChunk station entries;
\* every /programs, /metadata/description and /metadata/programs request
\* at most ProgramChunk ids; the three requests of a batch follow each other
\* and cover the same program ids, the artwork request by their first ten
\* characters.
C20_BatchLimits ==
    \A i \in DOMAIN reqs :
       LET path == reqs[i][1]
           data == reqs[i][2]
       IN /\ path \in {"schedules/md5", "schedules"}
             => (Len(data) >= 1 /\ Len(data) <= StationChunk)
          /\ path \in {"programs", "metadata/description",
                       "metadata/programs"}
             => (Len(data) >= 1 /\ Len(data) <= ProgramChunk)
          /\ path = "metadata/description"
             => (i > 1 /\ reqs[i - 1][1] = "programs"
                 /\ reqs[i - 1][2] = data)
          /\ path = "metadata/programs"
             => (i > 2 /\ reqs[i - 1][1] = "metadata/description"
                 /\ data = [j \in DOMAIN reqs[i - 1][2] |->
                               Trunc10(reqs[i - 1][2][j])])
          /\ (path = "programs" /\ i + 2 <= Len(reqs))
             => (reqs[i + 1][1] = "metadata/description"
                 /\ reqs[i + 2][1] = "metadata/programs")

C20_Witness ==
    /\ Len(SelectSeq(reqs, LAMBDA r : r[1] = "schedules/md5")) = 2
    /\ Len(SelectSeq(reqs, LAMBDA r : r[1] = "schedules")) = 2
    /\ \E i \in DOMAIN reqs :
          /\ reqs[i][1] = "metadata/programs"
          /\ reqs[i][2] = <<Trunc10(P1), Trunc10(P2)>>
    /\ \E i \in DOMAIN reqs :
          /\ reqs[i][1] = "metadata/programs"
          /\ reqs[i][2] = <<Trunc10(P3)>>

\* ------------------------------------------- claims on the schedule requests
\* The schedule phase of the caller's current operation ran to its end:
\* list(get_schedules()) returned, or the first next() of get_programs()
\* got past it.
SchedulesDone ==
    \/ hist.op = "get_schedules" /\ err = None
    \/ hist.op = "next" /\ gp.pc = "batch"

\* The /schedules requests of the current operation that list day k[2]
\* among the dates of station k[1].
SchedRequestsOf(k) ==
    {i \in DOMAIN reqs :
        /\ reqs[i][1] = "schedules"
        /\ \E j \in DOMAIN reqs[i][2] :
              /\ reqs[i][2][j].stationID = k[1]
              /\ k[2] \in Range(reqs[i][2][j].date)}

\* The (station, day) keys whose manifest md5 differs from the stored one.
SchedChangedKeys ==
    {k \in Slots : Get(hist.disk0.schedules, k) # srv.smd5[k]}

ProgramIds(seq) == [i \in DOMAIN seq |-> seq[i].programID]

\* The generator of get_programs() is suspended at a yield, or ran to the
\* end of its body: every batch requested so far was answered.
BatchesAnswered == hist.op = "next" /\ (gp.pc = "batch" \/ RanToEnd)

\* C22: of the changed program ids requested so far, exactly those for which
\* the /programs response has an object get a merged Program record, one
\* each and in response order (the records yielded followed by the objects
\* still to be merged); an id the server left out gets none, and no
\* KeyError or TypeError comes of it.
C22_OneRecordPerAnsweredProgram ==
    /\ BatchesAnswered =>
          ProgramIds(out.programs) \o ProgramIds(gp.pending)
             = ProgramIds(ProgramsResponse(out.progChanged))
    /\ srv.gaps = "program" => err \notin {"KeyError", "TypeError"}

\* get_programs() ran to its end after requesting P1, which the server
\* left out: the two other programs were yielded, P1 was not.
C22_Witness ==
    /\ RanToEnd /\ hist.op = "next"
    /\ srv.gaps = "program"
    /\ P1 \in Range(out.progChanged)
    /\ Range(ProgramIds(out.programs)) = {P2, P3}

\* C23: whichever optional part the answers lack, the merge raises neither
\* KeyError nor TypeError nor AttributeError, every changed program still
\* gets its record once get_programs() has run to its end, and a record
\* carries metadata exactly when the description response is a dict with
\* an entry for its id, and no artwork when the artwork response has no
\* entry, or only a code-5000 placeholder, for its first ten characters.
C23_MissingOptionalDataTolerated ==
    /\ err \notin {"KeyError", "TypeError", "AttributeError"}
    /\ (RanToEnd /\ hist.op = "next" /\ srv.gaps # "program")
          => ProgramIds(out.programs) = out.progChanged
    /\ \A i \in DOMAIN out.programs :
          LET r == out.programs[i] IN
          /\ "metadata" \in r.fields
                <=> ~ \/ srv.gaps = "metalist"
                      \/ srv.gaps = "metadata" /\ r.programID = P1
          /\ (/\ srv.gaps \in {"artwork", "placeholder"}
              /\ Trunc10(r.programID) = Trunc10(P1))
                => "artwork" \notin r.fields

\* get_programs() ran to its end against a server that answers
\* /metadata/description with an empty list: three records, none with
\* metadata.
C23_Witness ==
    /\ RanToEnd /\ hist.op = "next"
    /\ srv.gaps = "metalist"
    /\ Len(out.programs) = 3
    /\ \A i \in DOMAIN out.programs : "metadata" \notin out.programs[i].fields

\* The artwork response of a batch of the current get_programs() had an
\* entry, not a placeholder, for the first ten characters of pid.
ArtworkOffered(pid) ==
    \E i \in DOMAIN reqs :
       /\ reqs[i][1] = "metadata/programs"
       /\ Trunc10(pid) \in Range(reqs[i][2])
       /\ Trunc10(pid) \in DOMAIN ArtworkDict(ArtworkResponse(reqs[i][2]))

\* C24: every Program record whose first ten characters key an entry of its
\* batch's artwork response (not a placeholder) carries that entry's data
\* as its artwork, also when several programs of the batch share them.
C24_ArtworkByTruncatedKey ==
    \A i \in DOMAIN out.programs :
       ArtworkOffered(out.programs[i].programID)
          => /\ "artwork" \in out.programs[i].fields
             /\ out.programs[i].artwork = <<"art">>

\* The schedule slots consumed by the current get_programs() that air pid.
SlotsAiring(pid) ==
    {k \in Range(out.schedules) : pid \in Range(SlotPrograms(k))}

\* C25: the schedules field of every Program record yielded has exactly one
\* airtime context for each consumed schedule slot that airs its program
\* id, with that slot's air time and duration, the program id, and the
\* data of the slot's station.
C25_OneAirtimePerSlot ==
    \A i \in DOMAIN out.programs :
       LET r == out.programs[i] IN
       /\ Len(r.schedules) = Cardinality(SlotsAiring(r.programID))
       /\ \A k \in SlotsAiring(r.programID) :
             \E j \in DOMAIN r.schedules :
                /\ r.schedules[j].stationID = k[1]
                /\ \E n \in DOMAIN SlotPrograms(k) :
                      /\ SlotPrograms(k)[n] = r.programID
                      /\ r.schedules[j].airDateTime = <<k[2], n>>
                /\ r.schedules[j].duration = 30
                /\ r.schedules[j].programID = r.programID

\* A program aired in two consumed slots was yielded with two airtimes.
C25_Witness ==
    \E i \in DOMAIN out.programs :
       /\ Cardinality(SlotsAiring(out.programs[i].programID)) = 2
       /\ Len(out.programs[i].schedules) = 2

\* ------------------------------------------------------ claims on save()
\* C26: a save() that raises leaves every file of the store as it was
\* before the call, whatever it had written by then.
C26_SaveAllOrNothing ==
    [][(lastOp'.op = "save()" /\ lastOp'.exc # None) => files' = files]_vars

\* ---------------------------------------------------- claims on the models
\* The rank of an entry: the number after the prefix of its field name.
RankOf(item, prefix) == IntOf(From(item.name, Len(prefix))).v

\* What the precedence rule gives for the entries es when the property
\* read is one of the lowest-rank ones (low) or of the highest-rank ones:
\* nothing for no entry, the entry for one, the entry of the lowest or
\* highest rank for two of different rank.
Precedence(es, prefix, low) ==
    /\ access.r.exc = None
    /\ es = <<>> => ~access.r.has
    /\ Len(es) = 1 => access.r.has /\ access.r.text = es[1].text
    /\ (Len(es) = 2 /\ RankOf(es[1], prefix) # RankOf(es[2], prefix)) =>
          LET lo == IF RankOf(es[1], prefix) < RankOf(es[2], prefix)
                    THEN es[1] ELSE es[2]
              hi == IF lo = es[1] THEN es[2] ELSE es[1]
          IN /\ access.r.has
             /\ access.r.text = IF low THEN lo.text ELSE hi.text

\* The title half of C27, which the code satisfies.
TitlePrecedence ==
    /\ access.attr = "title" =>
          Precedence(DataGet(pmodel, "titles", <<>>), TitlePrefix, TRUE)
    /\ access.attr \in {"title_long", "subtitle"} =>
          Precedence(DataGet(pmodel, "titles", <<>>), TitlePrefix, FALSE)

\* C27: title is the text of the title entry of lowest rank and subtitle
\* and title_long that of the entry of highest rank (the one entry when
\* there is one, nothing when there is none), and description_short and
\* description are the same of the description entries.
C27_TitleAndDescriptionPrecedence ==
    /\ TitlePrecedence
    /\ access.attr = "description_short" =>
          Precedence(DataGet(pmodel, "descriptions", <<>>),
                     DescriptionPrefix, TRUE)
    /\ access.attr = "description" =>
          Precedence(DataGet(pmodel, "descriptions", <<>>),
                     DescriptionPrefix, FALSE)

\* The number a billing order stands for; 0 when the entry has none.
BillingNumber(b) == IF b.str THEN IntOf(b.s).v ELSE 0

\* The property read gave one Person per entry of es, in ascending billing
\* order.
PeopleOf(es) ==
    /\ access.r.exc = None
    /\ Len(access.r.people) = Len(es)
    /\ {access.r.people[i].id : i \in DOMAIN access.r.people}
          = {es[i].personId : i \in DOMAIN es}
    /\ \A i, j \in DOMAIN access.r.people :
          i < j => BillingNumber(access.r.people[i].billing_order)
                      <= BillingNumber(access.r.people[j].billing_order)

\* C28: actors and cast give one Person per entry of data['cast'], crew one
\* per entry of data['crew'], each list in ascending billing order with a
\* missing billing order counting as 0.
C28_PeopleSortedByBilling ==
    /\ access.attr \in {"actors", "cast"} =>
          PeopleOf(DataGet(pmodel, "cast", <<>>))
    /\ access.attr = "crew" => PeopleOf(DataGet(pmodel, "crew", <<>>))

\* ------------------------------------------- claims on the pysd store's diff
\* C29: in the pysd store's _diff, every pair examined whose key was in old
\* with a different marker has been yielded, and once it is the last pair
\* of its key examined, old holds its marker.
C29_PysdChangedMarkerYielded ==
    \A i \in Examined :
       (seenAs[i] # None /\ seenAs[i] # new[i][2])
          => /\ i \in Range(outIdx)
             /\ (\A j \in Examined : new[j][1] = new[i][1] => j <= i)
                   => old[new[i][1]] = new[i][2]

\* -------------------------------------------- claims on partial consumption
\* The station ids of the /schedules/md5 requests in rs, in order.
RECURSIVE ManifestStations(_)
ManifestStations(rs) ==
    IF rs = <<>> THEN <<>>
    ELSE (IF Head(rs)[1] = "schedules/md5" THEN Head(rs)[2] ELSE <<>>)
         \o ManifestStations(Tail(rs))

\* C30: a get_lineups() left at a yield does not touch the station-id list
\* and a get_schedules() left at a yield does not touch the program-id
\* list; consumed to the end, each assigns its list.  The next phase works
\* on the value it finds: get_schedules asks for the manifests of the
\* stored station ids without fetching lineups (and fetches them itself
\* only when the list is still None), and get_programs given schedules
\* diffs the stored program ids, failing when they are still None.
C30_AssignedOnlyWhenConsumed ==
    [][ /\ hist'.op = "take_lineups" => station_ids' = station_ids
        /\ hist'.op = "take_schedules" => program_ids' = program_ids
        /\ (hist'.op = "get_lineups" /\ err' = None)
              => station_ids'.st = "list"
        /\ (hist'.op = "get_schedules" /\ err' = None)
              => program_ids'.st = "list"
        /\ (hist'.op \in {"get_schedules", "take_schedules"} /\ err' = None)
              => /\ station_ids.st = "list"
                    => /\ ManifestStations(reqs') = station_ids.v
                       /\ \A i \in DOMAIN reqs' : reqs'[i][1] # "status"
                 /\ station_ids.st = "None"
                    => /\ station_ids'.st = "list"
                       /\ \E i \in DOMAIN reqs' : reqs'[i][1] = "status"
        /\ (hist'.op = "next" /\ gp.pc = "start" /\ gp.schedules.st = "list")
              => /\ program_ids.st = "None" => err' # None
                 /\ err' = None
                    => gp'.changed =
                          DiffAll(disk.programs, program_ids.v, 1, <<>>).keys
      ]_vars

\* After list(get_schedules()) stored the program ids, the caller took one
\* schedule from a second get_schedules() and dropped it: the stored list
\* is still the one of the first call.
C30_Witness ==
    /\ hist.op = "take_schedules"
    /\ err = None
    /\ hist.calls = 2
    /\ program_ids.st = "list"
    /\ heldSchedules.st = "list"

\* ------------------------------------------------ claims on the phase order
\* The phase a request belongs to.
PhaseOf(path) ==
    CASE path = "token" -> 0
      [] path = "status" -> 1
      [] path = "lineups" -> 2
      [] path = "schedules/md5" -> 3
      [] path = "schedules" -> 4
      [] path \in {"programs", "metadata/description", "metadata/programs"}
            -> 5

\* The caller's current operation is a get_programs() without lineups and
\* schedules arguments.
PlainGetPrograms ==
    gp.pc # "none" /\ gp.lineups.st = "None" /\ gp.schedules.st = "None"

\* C31: in a get_programs() without arguments the requests go out phase by
\* phase on a client that has a token: one status request, the first; then
\* the lineup requests; then the manifest requests; then the /schedules
\* requests; then the batches, each /programs followed by
\* /metadata/description and that by /metadata/programs; save is invoked
\* once every batch of the changed programs was requested, and no request
\* follows it.
C31_PhaseOrder ==
    PlainGetPrograms =>
       /\ reqs # <<>> => token # None
       /\ \A i \in DOMAIN reqs : reqs[i][1] = "status" <=> i = 1
       /\ \A i, j \in DOMAIN reqs :
             i < j => PhaseOf(reqs[i][1]) <= PhaseOf(reqs[j][1])
       /\ \A i \in DOMAIN reqs :
             /\ reqs[i][1] = "programs"
                   => (i > 1 /\ reqs[i - 1][1] \in {"schedules/md5",
                                  "schedules", "metadata/programs"})
             /\ reqs[i][1] = "metadata/description"
                   => (i > 1 /\ reqs[i - 1][1] = "programs")
             /\ reqs[i][1] = "metadata/programs"
                   => (i > 1 /\ reqs[i - 1][1] = "metadata/description")
       /\ \A n \in DOMAIN out.saves :
             /\ out.saves[n] = Len(reqs)
             /\ Len(SelectSeq(reqs, LAMBDA r : r[1] = "metadata/programs"))
                   = Len(Chunks(gp.changed, ProgramChunk))

\* A get_programs() without arguments went through all four phases, two
\* batches among them, and invoked save after its thirteenth request.
C31_Witness ==
    /\ PlainGetPrograms
    /\ Len(reqs) = 13
    /\ out.saves = <<13>>
    /\ Len(SelectSeq(reqs, LAMBDA r : r[1] = "programs")) = 2

\* --------------------------------------------- claims on the given sequences
\* C32: the first next() of a get_programs() that was given lineups and
\* schedules issues no status, lineup, manifest or schedule request; the
\* pairs it diffs against the stored program state are those of the
\* schedules yielded by the client's most recent get_schedules() consumed to
\* the end, whatever schedules were passed; and when the client holds no
\* such pairs, because no get_schedules() was consumed to the end or because
\* a get_programs() that reached its end has deleted them, nothing is
\* diffed or requested and the iteration fails: the schedules passed never
\* supply the pairs.
C32_GivenSequencesSkipPhases ==
    [][ (/\ hist'.op = "next"
         /\ gp.pc = "start"
         /\ gp.lineups.st = "list"
         /\ gp.schedules.st = "list")
        => /\ \A i \in DOMAIN reqs' : PhaseOf(reqs'[i][1]) = 5
           /\ program_ids.st = "list"
                 => /\ hist.fullPids.st = "list"
                    /\ err' \notin {"TypeError", "AttributeError(_program_ids)"}
                    /\ gp'.changed =
                          DiffAll(disk.programs, hist.fullPids.v, 1, <<>>).keys
           /\ program_ids.st = "None"
                 => /\ hist.fullPids.st = "None"
                    /\ err' = "TypeError"
                    /\ reqs' = <<>>
                    /\ gp'.changed = <<>>
           /\ program_ids.st = "deleted"
                 => /\ err' = "AttributeError(_program_ids)"
                    /\ reqs' = <<>>
                    /\ gp'.changed = <<>>
      ]_vars

\* A get_programs() given the kept lineups and only the first of three kept
\* schedules has requested a batch of two program ids right away, P3 among
\* the changed ids although no passed schedule airs it.
C32_Witness ==
    /\ hist.op = "next"
    /\ gp.lineups.st = "list"
    /\ gp.schedules.st = "list"
    /\ Len(gp.schedules.v) = 1
    /\ Len(heldSchedules.v) = 3
    /\ reqs # <<>>
    /\ reqs[1][1] = "programs"
    /\ P3 \in Range(gp.changed)

\* ------------------------------------------------- claims on the channels
\* The stations of all lineups of the status, in order, each with the
\* lineup it came from.
AllStations ==
    << <<"L1", "s1">>, <<"L2", "s2">> >>

\* The channel number of a station of a lineup, as its Station record has
\* it: the channel of the station's entry in the lineup's map.
ChannelOf(name, station) == StationMap(name)[station]

\* The station is among the channels asked for.
AskedFor(channels, name, station) ==
    \/ ChannelOf(name, station) \in Numbers(channels)
    \/ Callsign(station) \in Names(channels)

\* The station ids of the entries of a /schedules request.
StationsOf(station_days) ==
    {station_days[i].stationID : i \in DOMAIN station_days}

\* C33: a get_lineups(channels) consumed to its end lists, in lineup order,
\* exactly the stations whose channel number or callsign was given, and
\* every station when channels is absent or empty, while it yields every
\* lineup (with all its stations); a get_schedules() that finds this list
\* requests manifests for exactly its stations and schedules for no other.
C33_ChannelsFilterStations ==
    [][ /\ (hist'.op = "get_lineups" /\ err' = None)
           => /\ station_ids'.st = "list"
              /\ station_ids'.v =
                    LET kept == SelectSeq(AllStations, LAMBDA p :
                                   \/ hist'.channels.pairs = <<>>
                                   \/ AskedFor(hist'.channels, p[1], p[2]))
                    IN [i \in DOMAIN kept |-> kept[i][2]]
              /\ held'.v = StatusLineups
              /\ out'.lineups = StatusLineups
        /\ (hist'.op = "get_schedules" /\ err' = None
               /\ station_ids.st = "list")
           => /\ ManifestStations(reqs') = station_ids.v
              /\ \A i \in DOMAIN reqs' :
                    reqs'[i][1] = "schedules"
                       => StationsOf(reqs'[i][2]) \subseteq Range(station_ids.v)
      ]_vars

\* After a get_lineups() restricted to the number of s1, which left s1 as
\* the only station id, get_schedules() requested the manifest and the
\* schedules of s1 alone.
C33_Witness ==
    /\ hist.op = "get_schedules"
    /\ err = None
    /\ hist.channels.kind = "dict"
    /\ station_ids.v = <<"s1">>
    /\ held.v = StatusLineups
    /\ ManifestStations(reqs) = <<"s1">>
    /\ \E i \in DOMAIN reqs : reqs[i][1] = "schedules"

\* ------------------------------------------- claims on markers and fetches
\* The changed program ids requested so far for which the /programs
\* response had no object.
Omitted ==
    {q \in Range(out.progChanged) :
        q \notin Range(ProgramIds(ProgramsResponse(out.progChanged)))}

\* The (programID, md5) pairs a run against the same server answers
\* collects for the schedules consumed in this one.
SamePairsAgain ==
    PairsIn(ScheduleEntries(
       [i \in DOMAIN out.schedules |->
           [stationID |-> out.schedules[i][1],
            date |-> <<out.schedules[i][2]>>]]))

\* C34: the diff's dict holds the new marker of every changed program id
\* from the moment the id is yielded, fetched or not; and once
\* get_programs() has run to its end, a changed id the server left out of
\* the /programs response is in the persisted program state with its new
\* marker, so that a diff of the same pairs against the persisted state
\* (the next run) does not yield it.
C34_OmittedProgramMarkerSaved ==
    /\ \A q \in Range(gp.changed) : Get(gp.dold, q) = srv.pmd5[q]
    /\ (RanToEnd /\ hist.op = "next") =>
          \A q \in Omitted :
             /\ Get(disk.programs, q) = srv.pmd5[q]
             /\ q \notin Range(DiffAll(disk.programs, SamePairsAgain,
                                       1, <<>>).keys)

\* --------------------------------------------- claims on unchanged programs
\* The program ids aired in the schedules this get_programs() consumed
\* whose md5 there equals the one in the stored program state.
AiredUnchanged ==
    {q \in UNION {Range(SlotPrograms(k)) : k \in Range(out.schedules)} :
        Get(hist.disk0.programs, q) = srv.pmd5[q]}

\* The first next() of get_programs() got as far as the program diff.
ProgramsDiffed ==
    /\ hist.op = "next"
    /\ gp.pc = "batch" \/ out.saves # <<>> \/ out.progChanged # <<>>

\* C35: a program aired in a schedule yielded as changed whose md5 equals
\* the stored one is in no /programs, /metadata/description or
\* /metadata/programs request, has no Program record and is in the
\* schedules of none; the airtimes collected for it stay in the index.
C35_UnchangedProgramsNotEmitted ==
    \A q \in AiredUnchanged :
       /\ \A i \in DOMAIN reqs :
             /\ reqs[i][1] \in {"programs", "metadata/description"}
                   => q \notin Range(reqs[i][2])
             /\ (reqs[i][1] = "metadata/programs"
                 /\ Trunc10(q) \in Range(reqs[i][2]))
                   => \E p \in Range(reqs[i - 1][2]) :
                         p # q /\ Trunc10(p) = Trunc10(q)
       /\ q \notin Range(out.progChanged)
       /\ \A i \in DOMAIN out.programs :
             /\ out.programs[i].programID # q
             /\ \A j \in DOMAIN out.programs[i].schedules :
                   out.programs[i].schedules[j].programID # q
       /\ ProgramsDiffed =>
             (q \in DOMAIN gp.airtimes /\ gp.airtimes[q] # <<>>)

\* get_programs() ran to its end having yielded the record of a changed
\* program, while P3, aired in the changed schedule (s2, d1) and stored
\* with the same md5, kept its airtime in the index.
C35_Witness ==
    /\ RanToEnd /\ hist.op = "next"
    /\ P3 \in AiredUnchanged
    /\ <<"s2", "d1">> \in Range(out.schedChanged)
    /\ P3 \in DOMAIN gp.airtimes
    /\ Len(out.programs) >= 1

\* ------------------------------------------- claims on the pysd client's run
\* The stations of the lineups in names, in order.
RECURSIVE StationsOfLineups(_)
StationsOfLineups(names) ==
    IF names = <<>> THEN <<>>
    ELSE LineupStations(Head(names)) \o StationsOfLineups(Tail(names))

\* Every lineup of the status is in the lineup state the run loaded, with
\* the marker the status gives it.
NoLineupChanged ==
    \A i \in DOMAIN StatusResponse.lineups :
        Get(prun.disk0.lineups, StatusResponse.lineups[i].lineup)
           = StatusResponse.lineups[i].modified

\* The schedule state the run loaded lacks a marker of the manifest, or the
\* program state the md5 of a program.
ServerAhead ==
    \/ \E k \in Slots : Get(prun.disk0.schedules, k) # srv.smd5[k]
    \/ \E q \in Programs : Get(prun.disk0.programs, q) # srv.pmd5[q]

\* C36: in the pysd client the station ids a get_lineups() stores are those
\* of the lineups it requested and yielded, in order; in a run that loaded
\* every lineup of the status with the marker the status gives, no lineup
\* is requested or yielded, the list stored is empty, and a get_programs()
\* issues no manifest, schedule or batch request and yields no record,
\* whatever the schedule and program md5s of the server.
C36_PysdUnchangedLineupsStopRun ==
    /\ (prun.op = "get_lineups" /\ prun.err = None)
          => /\ prun.station_ids = AttrList(StationsOfLineups(prun.out.lineups))
             /\ prun.out.lineups =
                   [i \in 1..Len(SelectSeq(prun.reqs,
                                           LAMBDA r : r[1] = "lineups")) |->
                       SelectSeq(prun.reqs, LAMBDA r : r[1] = "lineups")[i][2]]
    /\ (NoLineupChanged /\ prun.op \in {"get_lineups", "get_programs"})
          => /\ prun.out.lineups = <<>>
             /\ prun.out.schedules = <<>>
             /\ prun.out.programs = <<>>
             /\ \A i \in DOMAIN prun.reqs : prun.reqs[i][1] = "status"
             /\ (prun.op = "get_lineups" /\ prun.err = None)
                   => prun.station_ids = AttrList(<<>>)

\* A get_programs() of a first call in a run that loaded both lineups
\* unchanged, but no schedule and no program marker, ended after its status
\* request without a record, and saved.
C36_Witness ==
    /\ prun.op = "get_programs"
    /\ prun.calls = 1
    /\ prun.err = None
    /\ NoLineupChanged
    /\ ServerAhead
    /\ prun.disk0.schedules = EmptyMap
    /\ Len(prun.reqs) = 1
    /\ prun.out.programs = <<>>
    /\ prun.saveCalls = 1

\* ----------------------------------------- claims on program ids in batches
\* The places of the /programs requests of the current operation that
\* send pid: <<request, position in its list>>.
ProgramSendings(pid) ==
    UNION { { <<i, j>> : j \in {n \in DOMAIN reqs[i][2] :
                                    reqs[i][2][n] = pid} } :
            i \in {m \in DOMAIN reqs : reqs[m][1] = "programs"} }

\* The records yielded by the current get_programs() for pid.
RecordsOf(pid) ==
    {i \in DOMAIN out.programs : out.programs[i].programID = pid}

\* C37: every occurrence of a program id in the schedules carries the md5
\* of that program, and then a program id is sent in at most one /programs
\* request of an operation, at one place of its list, however many of the
\* consumed schedule slots air it; at most one record is yielded for it, so
\* its airtimes are taken from the index at most once.
C37_ProgramIdInOneBatch ==
    \A pid \in Programs :
       /\ Cardinality(ProgramSendings(pid)) <= 1
       /\ Cardinality(RecordsOf(pid)) <= 1

\* A program aired in two consumed slots was sent in one /programs request
\* and yielded in one record.
C37_Witness ==
    \E pid \in Programs :
       /\ Cardinality(SlotsAiring(pid)) = 2
       /\ Cardinality(ProgramSendings(pid)) = 1
       /\ Cardinality(RecordsOf(pid)) = 1

\* ------------------------------------------------------ claims on chunker
\* The lists of chunks joined in order.
RECURSIVE Joined(_)
Joined(chunks) ==
    IF chunks = <<>> THEN <<>> ELSE Head(chunks) \o Joined(Tail(chunks))

\* C38: with each chunk read to its end before the next is asked for, the
\* chunks of chunker(seq, size) yielded so far, joined in order, are the
\* items the iterator has handed out, in the order of seq, and all of seq
\* once the generator has ended; no chunk is empty; every chunk but the
\* last has exactly size items and the last has at most size; an empty seq
\* gives no chunk; and the chunks are those the phases of the client are
\* computed with.
C38_ChunkerPartitions ==
    /\ Joined(chk.chunks) = SubSeq(chk.seq, 1, chk.pos)
    /\ chk.done => Joined(chk.chunks) = chk.seq
    /\ \A i \in DOMAIN chk.chunks :
          /\ chk.chunks[i] # <<>>
          /\ Len(chk.chunks[i]) <= chk.size
          /\ i < Len(chk.chunks) => Len(chk.chunks[i]) = chk.size
    /\ chk.seq = <<>> => chk.chunks = <<>>
    /\ chk.done => chk.chunks = Chunks(chk.seq, chk.size)

\* A chunker over four items with size 3 ended after a chunk of three and
\* a chunk of one.
C38_Witness ==
    /\ chk.done
    /\ Len(chk.seq) = 4
    /\ chk.size = 3
    /\ Len(chk.chunks) = 2
    /\ Len(chk.chunks[1]) = 3
    /\ Len(chk.chunks[2]) = 1

\* ----------------------------------------------- claims on a shared store
\* The dict o after the pairs were written into it, in order.
RECURSIVE Written(_, _)
Written(o, pairs) ==
    IF pairs = <<>> THEN o
    ELSE Written(Bind(o, Head(pairs)[1], Head(pairs)[2]), Tail(pairs))

\* A key that run r was yielded in a category and that the files held after
\* r's save(), and that the files of the store no longer hold.
LostBy(r) ==
    {<<c, k>> \in Categories \X {"a", "b"} :
        /\ sync.run[r].saved
        /\ \E i \in DOMAIN sync.run[r].got[c] : sync.run[r].got[c][i][1] = k
        /\ k \in DOMAIN sync.run[r].wrote[c]
        /\ k \notin DOMAIN LoadCategory(kind, files, smem, c)}

\* C39: with two runs on one store object, the map of a category in the
\* store object is that of the one run whose diff bound it last: what that
\* diff loaded from the files with the pairs that diff yielded written
\* into it, and nothing of the other run's diff; and a save() leaves in
\* every file the map the store object has then.  A run's save() can
\* therefore drop a marker the other run was yielded and saved.
C39_LastBinderWins ==
    /\ \A c \in smem.bound :
          /\ sync.binder[c] \in SyncRuns
          /\ smem[c] = Written(sync.run[sync.binder[c]].base[c],
                               sync.run[sync.binder[c]].got[c])
    /\ (\E r \in SyncRuns : sync.run[r].saved) /\ ~sync.dirty
          => \A c \in Categories :
                LoadCategory(kind, files, smem, c) = smem[c]

\* The lost update: both runs have saved, and the files lack a key that
\* one run was yielded and had saved.
C39_Witness ==
    /\ \A r \in SyncRuns : sync.run[r].saved
    /\ \E r \in SyncRuns : LostBy(r) # {}

====
